---- MODULE Spec2Model ----
(***************************************************************************)
(* Model of the LifeSmart local client (custom_components/local_lifesmart): *)
(* the LifeSmartAPI message builder, its UDP connection pool, its request   *)
(* operations and their caches, the retry loops around them (coordinator,   *)
(* sensor, API manager) and the setup of a config entry.                    *)
(*                                                                          *)
(* Scheduling.  Every operation of LifeSmartAPI is a coroutine.  A request  *)
(* may be suspended where the source has an `await`; the code between two   *)
(* awaits runs without interruption.  The awaits of a request are the two   *)
(* `async with self._pool_lock` entries (in _get_connection and in          *)
(* _return_connection).  sendto/recvfrom are blocking calls, so the         *)
(* exchange belongs to the step that took the connection.  A request is     *)
(* therefore three steps: the call up to the first await (cache lookup,     *)
(* create_message), the acquisition plus the exchange, and the release plus *)
(* the delivery of the result.  The pool lock is taken and dropped inside   *)
(* one such step, so pool_lock is 0 in every state of these specifications. *)
(* An uncontended asyncio.Lock does not suspend its taker, so the schedules *)
(* of one event loop are among the interleavings allowed here.              *)
(*                                                                          *)
(* SpecLock looks inside the steps: it runs a request one statement at a    *)
(* time, with the pool lock and the event loop's thread as variables.       *)
(*                                                                          *)
(* Requests are numbered in the order in which they are started.  SpecPool   *)
(* drives the pool by its two operations alone (_get_connection and         *)
(* _return_connection, called by a holder that keeps the socket in          *)
(* between); the other specifications drive it through the requests.        *)
(*                                                                          *)
(* Retry loops.  One loop runs at a time.  Each attempt of a loop around an  *)
(* API call is a request of its own, started by the loop and run by the     *)
(* request steps above; the loop takes its next step when that request has  *)
(* returned or raised.                                                      *)
(*                                                                          *)
(* Entities and tasks.  SpecSwitch and SpecRemote model one switch and one  *)
(* remote entity, SpecRefresh the per-device refresh tasks that share the   *)
(* coordinator's lock, SpecLate requests that run one after the other over  *)
(* sockets whose receive buffers keep what arrived late, and SpecParse the  *)
(* parsing of response datagrams of every length and content.               *)
(***************************************************************************)
EXTENDS Integers, Sequences, FiniteSets, TLC

\* ---- bounds of the model ----
MaxPoolRequests == 7    \* acquisitions made under SpecPool
MaxRequests == 2        \* requests started under every other specification
MaxTicks == 2           \* clock advances
MaxArgs == 3            \* entries of an argument mapping under SpecSig
MaxLoops == 2           \* retry loops entered under SpecRetry
MaxRefreshes == 2       \* _async_get_device_data tasks under SpecRefresh

\* ---- program constants ----
POOL_SIZE == 5          \* Queue(maxsize=5)
INIT_SOCKETS == 5       \* for _ in range(5)
STATE_TTL == 2          \* TTLCache(maxsize=100, ttl=2)
UPDATES_TTL == 2        \* @ttl_cache(maxsize=100, ttl=2)
REMOTE_TTL == 300       \* @ttl_cache(maxsize=50, ttl=300)
CMD_GET == 1
CMD_REPORT == 2
CMD_SET == 3
TYPE_ON == 129          \* 0x81
REFRESH_ATTEMPTS == 3   \* coordinator: for attempt in range(3)
REFRESH_SLEEP == 1      \* coordinator: await asyncio.sleep(1)
MAX_RETRY_ATTEMPTS == 3 \* sensor
BASE_RETRY_DELAY == 1   \* sensor
max_retries == 3        \* LifeSmartAPIManager.max_retries
retry_delay == 2        \* LifeSmartAPIManager.retry_delay
\* timeouts, in milliseconds
API_TIMEOUT == 10000    \* const.py: API_TIMEOUT = 10, the timeout of the LifeSmartAPI
SEND_TIME_OUT == 10000  \* send_command(..., time_out: float = 10.0)
QUERY_TIME_OUT == 200   \* discover_devices_by_id, set_device_state: time_out = 0.2
timout == 1000          \* coordinator: timout: float = 1.0

VARIABLES
    sequence,           \* self.sequence
    built,              \* ids of the messages create_message has built, in order
    wire,               \* the message create_message built last, and its datagram
    connection_pool,    \* self._connection_pool: idle sockets, FIFO
    created,            \* number of sockets created so far; sockets are 1..created
    closed,             \* sockets on which close() was called
    calls,              \* the requests: position, operation, borrowed socket, ...
    last,               \* what the request that completed last gave its caller, and when
    now,                \* the clock (seconds)
    state_cache,        \* self._state_cache, keyed by (device, idx, type, val)
    updates_cache,      \* the ttl_cache of get_state_updates
    list_cache,         \* the ttl_cache of get_remote_list
    keys_cache,         \* the ttl_cache of get_remote_keys, keyed by remote id
    signed,             \* the last two direct _create_signature calls: inputs, digest
    loop,               \* the retry loop in progress: kind, attempt, waits, outcome
    hass,               \* the host: the config entry being set up, hass.data, ...
    coordinator,        \* the LifeSmartCoordinator: _available, devices
    pool_lock,          \* self._pool_lock: the request that holds it, 0 when it is free
    running,            \* the coroutine the event loop's thread is running, 0 for none
    switch,             \* a LifeSmartSwitch entity: _state, _available, _last_action_time
    remote,             \* a LifeSmartRemote entity and its async_send_command call
    inbox,              \* datagrams waiting in the receive buffers of the sockets
    refreshes           \* the _async_get_device_data tasks of the coordinator

caches == <<state_cache, updates_cache, list_cache, keys_cache>>
pool == <<connection_pool, created, closed>>
codec == <<sequence, built, wire>>
thread == <<pool_lock, running>>
outer == <<switch, remote, inbox, refreshes>>
glue == <<loop, hass, coordinator, pool_lock, running, switch, remote, inbox, refreshes>>
vars == <<sequence, built, wire, connection_pool, created, closed, calls, last, now,
          state_cache, updates_cache, list_cache, keys_cache, signed, loop, hass,
          coordinator, pool_lock, running, switch, remote, inbox, refreshes>>

Range(s) == {s[i] : i \in DOMAIN s}

\* ---- values carried by messages ----
StrVal(s) == [t |-> "str", s |-> s, n |-> 0]
IntVal(n) == [t |-> "int", s |-> "", n |-> n]
PyNone == [t |-> "None", s |-> "", n |-> 0]

Devices == {"dev1"}
Vals == {0, 1}
RemoteIds == {"r1", "r2"}
RemoteKeyNames == {"power"}
\* the remote lists a hub may answer getlist with
RemoteLists == {<<>>, <<"r1">>, <<"r1", "r2">>}
StateKeys == {<<d, "L1", TYPE_ON, v>> : d \in Devices, v \in Vals}

\* the "msg" lists a hub may answer the discovery of all devices with: each entry is
\* a device, given by its "me", or NoMe for an entry that has no "me"
NoMe == ""
DeviceReplies == {<<>>, <<"dev1">>, <<"dev1", "dev2">>, <<"dev2", "dev1", "dev2">>,
                  <<"dev1", NoMe>>}

\* A datagram on the socket get_state_updates reads.  long: it has more than the 10
\* bytes of a header; json: what follows the header ("garbage": not UTF-8 or not
\* JSON, "no_msg": an object without "msg", "msg_not_object": "msg" is a list or a
\* number, "msg": "msg" is an object); me, idx, type, val: msg.get(...) of each;
\* data: "missing" (msg has no "data"), "null" (msg.data is no object), "object" (an
\* object without "v") or "object_v" (an object with "v", whose value is v).
Datagram(long, json, me, val, data) ==
    [long |-> long, json |-> json, me |-> me, idx |-> StrVal("L1"),
     type |-> IntVal(TYPE_ON), val |-> val, data |-> data, v |-> IntVal(1)]
HeaderOnly == Datagram(FALSE, "garbage", PyNone, PyNone, "missing")
Garbage == Datagram(TRUE, "garbage", PyNone, PyNone, "missing")
NoMsg == Datagram(TRUE, "no_msg", PyNone, PyNone, "missing")
Update == Datagram(TRUE, "msg", StrVal("dev1"), IntVal(0), "object_v")
Datagrams ==
    {HeaderOnly, Garbage, NoMsg, Datagram(TRUE, "msg_not_object", PyNone, PyNone, "missing")}
    \cup {Datagram(TRUE, "msg", me, val, data) :
            me \in {PyNone, StrVal("dev1")}, val \in {PyNone, IntVal(0)},
            data \in {"missing", "null", "object", "object_v"}}

NoMessage == [id |-> 0, obj |-> "", args |-> <<>>, type |-> 0, ts |-> 0, sign |-> <<>>,
              data |-> [header |-> <<>>, body_json |-> <<>>]]
NoSignature == [obj |-> "", args |-> <<>>, ts |-> 0, sign |-> <<>>]
NoResult == [kind |-> "pending", code |-> 0, re |-> 0, err |-> "", msg |-> <<>>]
NewCall == [pc |-> "new", op |-> "", arg |-> <<>>, sock |-> 0, out |-> "", id |-> 0,
            body |-> <<>>, cur |-> "", todo |-> <<>>, acc |-> <<>>, time_out |-> 0]
DoneCall == [NewCall EXCEPT !.pc = "done"]
NoLast == [op |-> "", arg |-> <<>>, sent |-> FALSE, out |-> "", result |-> NoResult, at |-> 0]
\* no retry loop has been entered
NoLoop == [kind |-> "", pc |-> "idle", arg |-> <<>>, alias |-> FALSE, attempt |-> 0,
           waits |-> <<>>, result |-> NoResult, cause |-> "", entered |-> 0, base |-> 0,
           caller |-> ""]
\* LifeSmartCoordinator.__init__
NewCoordinator == [available |-> TRUE, devices |-> {}, lock |-> 0, waiters |-> <<>>]
\* async_setup_entry has not been called, hass.data is empty
NoHass == [pc |-> "new", entry |-> <<>>, checked |-> 0, apis |-> 0, coordinators |-> 0,
           data |-> {}, attempt |-> 0, waits |-> <<>>, result |-> "", api |-> FALSE,
           unloaded |-> ""]

\* the switch entity before its constructor ran
NoAction == [op |-> "", outcome |-> "", before |-> FALSE, at |-> 0]
NewSwitch == [pc |-> "new", state |-> FALSE, available |-> FALSE, last_action_time |-> 0,
              pending |-> {}, accepted |-> <<>>, action |-> NoAction]
\* the remote entity with no async_send_command call made
NewRemote == [pc |-> "idle", command |-> <<>>, todo |-> <<>>, r |-> 0, sent |-> <<>>,
              failed |-> 0, result |-> ""]
\* a per-device refresh that was not called yet
NewRefresh == [pc |-> "new", alias |-> FALSE, attempt |-> 0, result |-> ""]

\* ---- what the hub (or the network) does to one exchange ----
\* ok: a datagram with a JSON body and code 0 arrives; rejected: one with code 1;
\* timeout: recvfrom raises socket.timeout; oserror: sendto/recvfrom raises OSError;
\* malformed: the datagram does not decode (UnicodeDecodeError / JSONDecodeError).
Outcomes == {"ok", "rejected", "timeout", "oserror", "malformed"}

\* the hub's answer to message id; msg is its payload
Response(code, id, msg) == [kind |-> "response", code |-> code, re |-> id, err |-> "", msg |-> msg]
Error(e) == [kind |-> "error", code |-> 0, re |-> 0, err |-> e, msg |-> <<>>]
None == [kind |-> "None", code |-> 0, re |-> 0, err |-> "", msg |-> <<>>]
\* the update event {'me', 'idx', 'val', 'type'}
Event(me, idx, val, type) ==
    [kind |-> "event", code |-> 0, re |-> 0, err |-> "", msg |-> <<me, idx, val, type>>]
AllKeys(acc) == [kind |-> "all_keys", code |-> 0, re |-> 0, err |-> "", msg |-> acc]

\* the value or the exception the try block of send_command / set_device_state ends with
ExchangeResult(out, id, body) ==
    CASE out = "ok" -> Response(0, id, body)
      [] out = "rejected" -> Response(1, id, <<>>)
      [] out = "timeout" -> Error("timeout")
      [] out = "oserror" -> Error("oserror")
      [] out = "malformed" -> Error("decode")

\* faulty variant: msg.val is preferred to msg.data.v
EventVal_valFirst(data) ==
    IF data.val # PyNone THEN data.val
    ELSE IF data.data = "object_v" THEN data.v ELSE PyNone

\* msg.get('data', {}).get('v', msg.get('val')), for a msg.data that is an object
EventVal(data) == IF data.data = "object_v" THEN data.v ELSE data.val

\* get_state_updates from the datagram to the return: every exception is caught and
\* logged, and the function then returns None.  json.loads raises on garbage; a
\* msg.data that is no object has no `get` (AttributeError).
state_update(data) ==
    IF ~data.long THEN None
    ELSE IF data.json # "msg" THEN None
    ELSE IF data.data = "null" THEN None
    ELSE Event(data.me, data.idx, EventVal(data), data.type)

\* get_state_updates: recvfrom raised (caught as well), or returned the datagram body
UpdateResult(out, body) ==
    IF out \in {"timeout", "oserror"} THEN None ELSE state_update(body)

\* api.get_devices on what discover_devices returned: a dict keyed by device["me"],
\* in the order in which the keys were first inserted
RECURSIVE ByMe(_, _)
ByMe(msg, seen) ==
    IF msg = <<>> THEN <<>>
    ELSE IF Head(msg) \in seen THEN ByMe(Tail(msg), seen)
    ELSE <<Head(msg)>> \o ByMe(Tail(msg), seen \cup {Head(msg)})

DevicesResult(result) ==
    IF result.kind # "response" THEN result
    ELSE IF NoMe \in Range(result.msg) THEN Error("KeyError")
    ELSE [kind |-> "devices", code |-> 0, re |-> 0, err |-> "", msg |-> ByMe(result.msg, {})]

\* ---- caches ----
\* an entry of a cachetools TTL cache; coro is the request whose coroutine object the
\* ttl_cache wrapper stored, value what that coroutine has produced so far
NoEntry == [coro |-> 0, expires |-> 0, value |-> NoResult]
Live(e) == e.coro # 0 /\ now < e.expires
Store(r, ttl) == [coro |-> r, expires |-> now + ttl, value |-> NoResult]
Produced(e, r, v) == IF e.coro = r THEN [e EXCEPT !.value = v] ELSE e

\* hashkey(device_id, state['idx'], state['type'], state['val'])
StateKey(device_id, idx, type, val) == <<device_id, idx, type, val>>

\* faulty variant: the key names the operation only
KeysKey_operationOnly(remote_id) == "r1"

\* the key the ttl_cache wrapper of get_remote_keys makes of the call's arguments
KeysKey(remote_id) == remote_id

\* ---- _create_signature ----
\* An argument mapping is the sequence of its (key, value) pairs in insertion order.
\* A string is the sequence of the pieces it is concatenated from.
MODEL == "OD_ALI_TECH"
TOKEN == "8SptZ2l2xnQlb8bSdT8mwA"

\* the argument keys the client uses, in the order Python compares them as strings
KeyOrder == <<"cmd", "id", "idx", "key", "me", "tag", "type", "val">>
KeyRank(k) == CHOOSE i \in DOMAIN KeyOrder : KeyOrder[i] = k

\* f'{v}' of an int: its decimal digits
RECURSIVE Decimal(_)
Decimal(n) ==
    LET digit == <<"0", "1", "2", "3", "4", "5", "6", "7", "8", "9">>[(n % 10) + 1] IN
    IF n < 10 THEN <<digit>> ELSE Decimal(n \div 10) \o <<digit>>

\* f'{v}'
Format(v) == IF v.t = "int" THEN Decimal(v.n) ELSE <<v.s>>

\* the pair inserted at its place in a list sorted by key
RECURSIVE InsertSorted(_, _)
InsertSorted(pair, sorted) ==
    IF sorted = <<>> THEN <<pair>>
    ELSE IF KeyRank(pair[1]) < KeyRank(Head(sorted)[1]) THEN <<pair>> \o sorted
    ELSE <<Head(sorted)>> \o InsertSorted(pair, Tail(sorted))

\* faulty variant: the items are joined in insertion order
SortedItems_unsorted(args) == args

\* sorted(args.items())
RECURSIVE SortedItems(_)
SortedItems(args) ==
    IF args = <<>> THEN <<>>
    ELSE InsertSorted(Head(args), SortedItems(Tail(args)))

\* ','.join(f'{k}:{v}' for k, v in sorted_args)
RECURSIVE JoinItems(_)
JoinItems(items) ==
    IF items = <<>> THEN <<>>
    ELSE LET first == <<Head(items)[1], ":">> \o Format(Head(items)[2]) IN
         IF Len(items) = 1 THEN first
         ELSE first \o <<",">> \o JoinItems(Tail(items))

\* hashlib.md5(...).hexdigest(): equal strings give equal digests; the digests of
\* different strings are kept apart
Md5Hex(string) == <<"md5">> \o string

base_string(obj, args, ts) ==
    <<"obj:", obj, ",">> \o JoinItems(SortedItems(args))
        \o <<",ts:">> \o Decimal(ts) \o <<",model:", MODEL, ",token:", TOKEN>>

create_signature(obj, args, ts) == Md5Hex(base_string(obj, args, ts))

\* ---- create_message ----
\* faulty variant: the counter is incremented before it is read
MessageId_afterIncrement(seq) == seq + 1

\* "id": self.sequence
MessageId(seq) == seq

\* faulty variant: the increment is lost
NextSequence_lost(seq) == seq

\* self.sequence += 1
NextSequence(seq) == seq + 1

\* REMARK.encode(): the bytes of "JL"
REMARK == <<74, 76>>

\* struct's big-endian unsigned integer of `width` bytes
RECURSIVE BigEndian(_, _)
BigEndian(n, width) ==
    IF width = 0 THEN <<>> ELSE BigEndian(n \div 256, width - 1) \o <<n % 256>>

\* the number of characters of a text given as the sequence of its pieces
RECURSIVE Chars(_)
Chars(text) == IF text = <<>> THEN 0 ELSE Len(Head(text)) + Chars(Tail(text))

\* faulty variant: the length field counts the header as well
BodyLength_withHeader(body_json) == Chars(body_json) + 10

\* len(body_json): the text is ASCII (json.dumps escapes everything else), so its
\* UTF-8 encoding has one byte for each character
BodyLength(body_json) == Chars(body_json)

\* struct.pack('>2sHHI', REMARK.encode(), 0, pkg_type, len(body_json))
pack(pkg_type, body_json) ==
    REMARK \o BigEndian(0, 2) \o BigEndian(pkg_type, 2) \o BigEndian(BodyLength(body_json), 4)

\* json.dumps of a value of the argument mapping
JsonValue(v) == IF v.t = "int" THEN Decimal(v.n) ELSE <<"\"", v.s, "\"">>

\* the items of a JSON object, in insertion order
RECURSIVE JsonItems(_)
JsonItems(items) ==
    IF items = <<>> THEN <<>>
    ELSE LET first == <<"\"", Head(items)[1], "\": ">> \o JsonValue(Head(items)[2]) IN
         IF Len(items) = 1 THEN first
         ELSE first \o <<", ">> \o JsonItems(Tail(items))

\* json.dumps(body): the text as the sequence of the pieces it is written from; the
\* digest stands in the text as the pieces it was computed from
json_dumps(id, obj, args, ts, sign) ==
    <<"{\"sys\": {\"ver\": 1, \"sign\": \"">> \o sign
        \o <<"\", \"model\": \"", MODEL, "\", \"ts\": ">> \o Decimal(ts)
        \o <<"}, \"id\": ">> \o Decimal(id)
        \o <<", \"obj\": \"", obj, "\", \"args\": {">> \o JsonItems(args) \o <<"}}">>

\* header + body_json: the datagram, as its header bytes and the text that follows
Joined(header, body_json) == [header |-> header, body_json |-> body_json]

\* len() of a datagram
Size(data) == Len(data.header) + Chars(data.body_json)

create_message(obj, args, pkg_type) ==
    /\ LET sign == create_signature(obj, args, now)
           body_json == json_dumps(MessageId(sequence), obj, args, now, sign) IN
        wire' = [id |-> MessageId(sequence), obj |-> obj, args |-> args,
                 type |-> pkg_type, ts |-> now, sign |-> sign,
                 data |-> Joined(pack(pkg_type, body_json), body_json)]
    /\ built' = Append(built, MessageId(sequence))
    /\ sequence' = NextSequence(sequence)

\* ---- the connection pool ----
\* faulty variant: the head of the queue is handed out but left in the queue
GetConnection_peek(q, n) ==
    IF q # <<>>
    THEN [sock |-> Head(q), pool |-> q, created |-> n]
    ELSE [sock |-> n + 1, pool |-> q, created |-> n + 1]

\* faulty variant: an empty queue gives the caller no connection
GetConnection_noCreate(q, n) ==
    IF q # <<>>
    THEN [sock |-> Head(q), pool |-> Tail(q), created |-> n]
    ELSE [sock |-> 0, pool |-> q, created |-> n]

\* _get_connection: get_nowait() from the queue, or a new socket when it is empty
GetConnection(q, n) ==
    IF q # <<>>
    THEN [sock |-> Head(q), pool |-> Tail(q), created |-> n]
    ELSE [sock |-> n + 1, pool |-> q, created |-> n + 1]

\* faulty variant: the queue has no maxsize: every returned socket is kept
ReturnConnection_unbounded(q, cl, sock) ==
    [pool |-> Append(q, sock), closed |-> cl]

\* faulty variant: every returned socket is closed
ReturnConnection_alwaysClose(q, cl, sock) ==
    [pool |-> q, closed |-> cl \cup {sock}]

\* _return_connection: put_nowait(sock), or close() when the queue is full
ReturnConnection(q, cl, sock) ==
    IF Len(q) < POOL_SIZE
    THEN [pool |-> Append(q, sock), closed |-> cl]
    ELSE [pool |-> q, closed |-> cl \cup {sock}]

\* faulty variant: the connection is returned after the try block instead of in a finally
FinallyRuns_onReturnOnly(out) == out \in {"ok", "rejected"}

\* try/finally: the finally clause runs whatever the try block ended with
FinallyRuns(out) == out \in Outcomes

\* sock.gettimeout(), in milliseconds: _init_connection_pool and _get_connection set
\* self.timeout on every socket they create, and no statement sets another timeout
gettimeout(sock) == API_TIMEOUT

\* How long the exchange of request c kept the thread (ms): with no datagram to read,
\* recvfrom blocks until the socket's timeout ends it; a datagram that does arrive is
\* taken to arrive at once.
Blocked(c) == IF c.out = "timeout" THEN gettimeout(c.sock) ELSE 0

Started == {r \in DOMAIN calls : calls[r].pc # "new"}
InFlight == {r \in DOMAIN calls : calls[r].pc \in {"acquire", "release", "holding"}}
Holders == {r \in DOMAIN calls : calls[r].sock # 0}
Borrowed == {calls[r].sock : r \in Holders}
NextRequest(r) == calls[r].pc = "new" /\ \A q \in 1..(r - 1) : calls[q].pc # "new"

InitClient ==
    /\ sequence = 1
    /\ built = <<>>
    /\ wire = NoMessage
    /\ connection_pool = [i \in 1..INIT_SOCKETS |-> i]
    /\ created = INIT_SOCKETS
    /\ closed = {}
    /\ last = NoLast
    /\ now = 0
    /\ state_cache = [k \in StateKeys |-> NoEntry]
    /\ updates_cache = NoEntry
    /\ list_cache = NoEntry
    /\ keys_cache = [k \in RemoteIds |-> NoEntry]
    /\ signed = <<NoSignature, NoSignature>>
    /\ loop = NoLoop
    /\ hass = NoHass
    /\ coordinator = NewCoordinator
    /\ pool_lock = 0
    /\ running = 0
    /\ switch = NewSwitch
    /\ remote = NewRemote
    /\ inbox = <<>>
    /\ refreshes = [t \in 1..MaxRefreshes |-> NewRefresh]

InitPool == InitClient /\ calls = [r \in 1..MaxPoolRequests |-> NewCall]

\* a request for every attempt of every loop
MaxLoopRequests == MaxLoops * REFRESH_ATTEMPTS

InitRetry == InitClient /\ calls = [r \in 1..MaxLoopRequests |-> NewCall]

Init == InitClient /\ calls = [r \in 1..MaxRequests |-> NewCall]

\* ---- the pool's operations on their own ----
get_connection(r) ==
    /\ NextRequest(r)
    /\ LET got == GetConnection(connection_pool, created) IN
        /\ connection_pool' = got.pool
        /\ created' = got.created
        /\ calls' = [calls EXCEPT ![r] = [NewCall EXCEPT !.pc = "holding",
                                           !.op = "_get_connection", !.sock = got.sock]]
    /\ UNCHANGED <<codec, closed, last, now, signed, caches, glue>>

return_connection(r) ==
    /\ calls[r].pc = "holding"
    /\ LET put == ReturnConnection(connection_pool, closed, calls[r].sock) IN
        /\ connection_pool' = put.pool
        /\ closed' = put.closed
        /\ calls' = [calls EXCEPT ![r] = DoneCall]
    /\ UNCHANGED <<codec, created, last, now, signed, caches, glue>>

NextPool ==
    \E r \in 1..MaxPoolRequests :
        \/ get_connection(r)
        \/ return_connection(r)

SpecPool == InitPool /\ [][NextPool]_vars

\* ---- the request operations ----
\* the call returns or raises without having awaited anything
Completes(r, op, arg, result) ==
    /\ calls' = [calls EXCEPT ![r] = DoneCall]
    /\ last' = [op |-> op, arg |-> arg, sent |-> FALSE, out |-> "", result |-> result,
                at |-> now]

\* send_command up to `await self._get_connection()`
send_command(r, op, arg, obj, args, pkg_type, time_out) ==
    /\ NextRequest(r)
    /\ create_message(obj, args, pkg_type)
    /\ calls' = [calls EXCEPT ![r] = [NewCall EXCEPT !.pc = "acquire", !.op = op,
                                       !.arg = arg, !.id = MessageId(sequence),
                                       !.time_out = time_out]]
    /\ UNCHANGED <<pool, last, now, signed, caches, glue>>

discover_devices(r) ==
    send_command(r, "discover_devices", <<>>, "eps", <<<<"me", StrVal("")>>>>, 1,
                 SEND_TIME_OUT)

discover_devices_by_id(r, d, time_out) ==
    send_command(r, "discover_devices_by_id", <<d>>, "ep", <<<<"me", StrVal(d)>>>>, 1,
                 time_out)

\* faulty variant: a repeat of the key that was sent last is answered from its response
send_remote_key_cached(r, rid, key) ==
    IF last.op = "send_remote_key" /\ last.arg = <<rid, key>> /\ last.result.kind = "response"
    THEN /\ NextRequest(r)
         /\ Completes(r, "send_remote_key", <<rid, key>>, last.result)
         /\ UNCHANGED <<codec, pool, now, signed, caches, glue>>
    ELSE send_command(r, "send_remote_key", <<rid, key>>, "spotremote",
                      <<<<"id", StrVal(rid)>>, <<"cmd", StrVal("sendkey")>>,
                        <<"key", StrVal(key)>>>>, 3, SEND_TIME_OUT)

send_remote_key(r, rid, key) ==
    send_command(r, "send_remote_key", <<rid, key>>, "spotremote",
                 <<<<"id", StrVal(rid)>>, <<"cmd", StrVal("sendkey")>>,
                   <<"key", StrVal(key)>>>>, 3, SEND_TIME_OUT)

\* set_device_state up to `await self._get_connection()`, or to the cached return
set_device_state(r, d, v) ==
    /\ NextRequest(r)
    /\ LET cache_key == StateKey(d, "L1", TYPE_ON, v)
           args == <<<<"me", StrVal(d)>>, <<"idx", StrVal("L1")>>,
                     <<"type", IntVal(TYPE_ON)>>, <<"val", IntVal(v)>>>> IN
        IF Live(state_cache[cache_key])
        THEN /\ Completes(r, "set_device_state", cache_key, state_cache[cache_key].value)
             /\ UNCHANGED codec
        ELSE /\ create_message("ep", args, CMD_SET)
             /\ calls' = [calls EXCEPT ![r] = [NewCall EXCEPT !.pc = "acquire",
                            !.op = "set_device_state", !.arg = cache_key,
                            !.id = MessageId(sequence), !.time_out = QUERY_TIME_OUT]]
             /\ last' = last
    /\ UNCHANGED <<pool, now, signed, caches, glue>>

\* A ttl_cache wrapper around an `async def` caches the coroutine object the call
\* returns.  A call that finds a live entry gets that same coroutine object, and
\* awaiting a coroutine a second time raises RuntimeError.
AwaitedAgain == Error("RuntimeError")

\* get_remote_keys through its ttl_cache wrapper, up to the first await
get_remote_keys(r, rid) ==
    /\ NextRequest(r)
    /\ IF Live(keys_cache[KeysKey(rid)])
       THEN /\ Completes(r, "get_remote_keys", <<rid>>, AwaitedAgain)
            /\ UNCHANGED <<codec, keys_cache>>
       ELSE /\ keys_cache' = [keys_cache EXCEPT ![KeysKey(rid)] = Store(r, REMOTE_TTL)]
            /\ create_message("spotremote",
                              <<<<"id", StrVal(rid)>>, <<"cmd", StrVal("getkeys")>>>>, 3)
            /\ calls' = [calls EXCEPT ![r] = [NewCall EXCEPT !.pc = "acquire",
                           !.op = "get_remote_keys", !.arg = <<rid>>,
                           !.id = MessageId(sequence), !.time_out = SEND_TIME_OUT]]
            /\ last' = last
    /\ UNCHANGED <<pool, now, signed, state_cache, updates_cache, list_cache, glue>>

\* get_remote_list through its ttl_cache wrapper, up to the first await
get_remote_list(r) ==
    /\ NextRequest(r)
    /\ IF Live(list_cache)
       THEN /\ Completes(r, "get_remote_list", <<>>, AwaitedAgain)
            /\ UNCHANGED <<codec, list_cache>>
       ELSE /\ list_cache' = Store(r, REMOTE_TTL)
            /\ create_message("spotremote", <<<<"cmd", StrVal("getlist")>>>>, 3)
            /\ calls' = [calls EXCEPT ![r] = [NewCall EXCEPT !.pc = "acquire",
                           !.op = "get_remote_list", !.id = MessageId(sequence),
                           !.time_out = SEND_TIME_OUT]]
            /\ last' = last
    /\ UNCHANGED <<pool, now, signed, state_cache, updates_cache, keys_cache, glue>>

\* get_state_updates through its ttl_cache wrapper, up to the first await
get_state_updates(r) ==
    /\ NextRequest(r)
    /\ IF Live(updates_cache)
       THEN /\ Completes(r, "get_state_updates", <<>>, AwaitedAgain)
            /\ UNCHANGED updates_cache
       ELSE /\ updates_cache' = Store(r, UPDATES_TTL)
            /\ calls' = [calls EXCEPT ![r] = [NewCall EXCEPT !.pc = "acquire",
                           !.op = "get_state_updates"]]
            /\ last' = last
    /\ UNCHANGED <<codec, pool, now, signed, state_cache, list_cache, keys_cache, glue>>

\* the payloads the hub may put in the answer of request c
ReplyBodies(c, out) ==
    IF c.op = "get_remote_list" /\ c.cur = "" /\ out = "ok" THEN RemoteLists
    ELSE IF c.op = "get_devices" /\ out = "ok" THEN DeviceReplies
    ELSE IF c.op = "get_state_updates" /\ out = "ok" THEN {Update}
    ELSE IF c.op = "get_state_updates" /\ out = "malformed" THEN {Garbage}
    ELSE IF c.op = "get_state_updates" /\ out = "rejected" THEN {NoMsg}
    ELSE {<<>>}

\* _get_connection, then sendto / recvfrom / json.loads, up to the finally clause
Exchanged(r, out, body) ==
    /\ calls[r].pc = "acquire"
    /\ LET got == GetConnection(connection_pool, created) IN
        /\ connection_pool' = got.pool
        /\ created' = got.created
        /\ calls' = [calls EXCEPT ![r].pc = "release", ![r].sock = got.sock,
                                  ![r].out = out, ![r].body = body]
    /\ UNCHANGED <<codec, closed, last, now, signed, caches, glue>>

Exchange(r, out) == \E body \in ReplyBodies(calls[r], out) : Exchanged(r, out, body)

\* the datagram does not reach the dict lookups: it is no longer than a header, or
\* what follows the header does not decode
Malformed(data) == ~data.long \/ data.json = "garbage"

\* get_state_updates: _get_connection, then recvfrom returns the datagram `data`
recvfrom(r, data) ==
    /\ calls[r].op = "get_state_updates"
    /\ Exchanged(r, IF Malformed(data) THEN "malformed" ELSE "ok", data)

\* what the try block of request c ends with
Answer(c) ==
    CASE c.op = "get_state_updates" -> UpdateResult(c.out, c.body)
      [] c.op = "get_devices" -> DevicesResult(ExchangeResult(c.out, c.id, c.body))
      [] OTHER -> ExchangeResult(c.out, c.id, c.body)

\* The finally clause (_return_connection), then the return or the raise.  In
\* get_remote_list the awaited send_command returns into the function: a getlist
\* response with code 0 starts the loop over the remotes, and each getkeys response
\* continues it with the next get_remote_keys call, up to that call's first await.
Finish(r) ==
    /\ calls[r].pc = "release"
    /\ LET c == calls[r]
           put == IF FinallyRuns(c.out)
                  THEN ReturnConnection(connection_pool, closed, c.sock)
                  ELSE [pool |-> connection_pool, closed |-> closed]
           answer == Answer(c)
           listing == c.op = "get_remote_list"
           fanout == listing /\ answer.kind = "response" /\ (c.cur # "" \/ answer.code = 0)
           acc == IF c.cur # "" /\ answer.code = 0
                  THEN Append(c.acc, [remote |-> c.cur, keys |-> answer.re])
                  ELSE c.acc
           todo == IF c.cur = "" THEN c.body ELSE c.todo
           keys1 == IF listing /\ c.cur # ""
                    THEN [keys_cache EXCEPT ![KeysKey(c.cur)] = Produced(@, r, answer)]
                    ELSE IF c.op = "get_remote_keys"
                         THEN [keys_cache EXCEPT ![KeysKey(c.arg[1])] = Produced(@, r, answer)]
                         ELSE keys_cache
       IN
        /\ connection_pool' = put.pool
        /\ closed' = put.closed
        /\ IF fanout /\ todo # <<>> /\ ~Live(keys1[KeysKey(Head(todo))])
           THEN /\ keys_cache' = [keys1 EXCEPT ![KeysKey(Head(todo))] = Store(r, REMOTE_TTL)]
                /\ create_message("spotremote",
                                  <<<<"id", StrVal(Head(todo))>>,
                                    <<"cmd", StrVal("getkeys")>>>>, 3)
                /\ calls' = [calls EXCEPT ![r] = [c EXCEPT !.pc = "acquire", !.sock = 0,
                               !.out = "", !.body = <<>>, !.id = MessageId(sequence),
                               !.cur = Head(todo), !.todo = Tail(todo), !.acc = acc]]
                /\ UNCHANGED <<last, list_cache, updates_cache>>
           ELSE LET result == IF ~fanout THEN answer
                              ELSE IF todo = <<>> THEN AllKeys(acc) ELSE AwaitedAgain IN
                /\ keys_cache' = keys1
                /\ list_cache' = IF listing THEN Produced(list_cache, r, result)
                                 ELSE list_cache
                /\ updates_cache' = IF c.op = "get_state_updates"
                                    THEN Produced(updates_cache, r, result)
                                    ELSE updates_cache
                /\ calls' = [calls EXCEPT ![r] = [DoneCall EXCEPT
                               !.sock = IF FinallyRuns(c.out) THEN 0 ELSE c.sock]]
                /\ last' = [op |-> c.op, arg |-> c.arg, sent |-> TRUE, out |-> c.out,
                            result |-> result, at |-> now]
                /\ UNCHANGED codec
    /\ UNCHANGED <<created, now, signed, state_cache, glue>>

\* ---- the clock ----
TicksTaken == (now \div REMOTE_TTL) + (now % REMOTE_TTL)

\* d seconds pass
Tick(d) ==
    /\ TicksTaken < MaxTicks
    /\ now' = now + d
    /\ UNCHANGED <<codec, pool, calls, last, caches, signed, glue>>

\* ---- the message builder under concurrent requests ----
SeqOutcomes == {"ok", "timeout"}

NextSeq ==
    \E r \in 1..MaxRequests :
        \/ discover_devices(r)
        \/ \E d \in Devices : discover_devices_by_id(r, d, QUERY_TIME_OUT)
        \/ \E key \in RemoteKeyNames : send_remote_key(r, "r1", key)
        \/ \E d \in Devices : set_device_state(r, d, 1)
        \/ get_remote_list(r)
        \/ \E out \in SeqOutcomes : Exchange(r, out)
        \/ Finish(r)

SpecSeq == Init /\ [][NextSeq]_vars

\* ---- every exit path of the requests that borrow a connection ----
NextExit ==
    \E r \in 1..MaxRequests :
        \/ discover_devices(r)
        \/ \E d \in Devices : set_device_state(r, d, 1)
        \/ get_state_updates(r)
        \/ \E out \in Outcomes : Exchange(r, out)
        \/ Finish(r)

SpecExit == Init /\ [][NextExit]_vars

\* the event loop runs every coroutine that is ready to run
FairExit ==
    /\ SpecExit
    /\ \A r \in 1..MaxRequests : WF_vars(\E out \in Outcomes : Exchange(r, out))
    /\ \A r \in 1..MaxRequests : WF_vars(Finish(r))

\* ---- the cached operations as time passes ----
CacheOutcomes == {"ok", "timeout"}

NextState ==
    \/ \E r \in 1..MaxRequests :
        \/ \E d \in Devices, v \in Vals : set_device_state(r, d, v)
        \/ \E out \in Outcomes : Exchange(r, out)
        \/ Finish(r)
    \/ \E d \in {1, REMOTE_TTL} : Tick(d)

SpecState == Init /\ [][NextState]_vars

NextCache ==
    \/ \E r \in 1..MaxRequests :
        \/ \E rid \in RemoteIds : get_remote_keys(r, rid)
        \/ get_remote_list(r)
        \/ \E out \in CacheOutcomes : Exchange(r, out)
        \/ Finish(r)
    \/ \E d \in {1, REMOTE_TTL} : Tick(d)

SpecCache == Init /\ [][NextCache]_vars

\* ---- the keyed caches under calls with different arguments ----
NextKey ==
    \E r \in 1..MaxRequests :
        \/ \E rid \in RemoteIds : get_remote_keys(r, rid)
        \/ \E d \in Devices, v \in Vals : set_device_state(r, d, v)
        \/ \E out \in CacheOutcomes : Exchange(r, out)
        \/ Finish(r)

SpecKey == Init /\ [][NextKey]_vars

\* ---- the listener: datagrams of every shape, as time passes ----
NextUpdates ==
    \/ \E r \in 1..MaxRequests :
        \/ get_state_updates(r)
        \/ \E data \in Datagrams : recvfrom(r, data)
        \/ Exchange(r, "timeout")
        \/ Finish(r)
    \/ Tick(1)

SpecUpdates == Init /\ [][NextUpdates]_vars

\* ---- the response datagram, parsed ----
\* A received datagram is described by its length in bytes and by what its bytes from
\* the 11th on are when it has any: a JSON text, text that is no JSON, or bytes that
\* are no UTF-8.
ReplySizes == {9, 10, 64}
Tails == {"json", "not_json", "not_utf8"}
Replies == [size : ReplySizes, tail : Tails]

\* data[10:]
Slice(data) == IF data.size <= 10 THEN "empty" ELSE data.tail

\* faulty variant: a datagram with nothing after the header parses to an empty response
ParseError_emptyAccepted(data) ==
    CASE Slice(data) = "not_utf8" -> "UnicodeDecodeError"
      [] Slice(data) = "not_json" -> "JSONDecodeError"
      [] OTHER -> ""

\* json.loads(data[10:].decode('utf-8')): the exception it raises, "" when it returns
ParseError(data) ==
    CASE Slice(data) = "not_utf8" -> "UnicodeDecodeError"
      [] Slice(data) \in {"empty", "not_json"} -> "JSONDecodeError"
      [] OTHER -> ""

\* send_command, set_device_state: _get_connection, sendto, then recvfrom returns the
\* datagram `data` and the response is parsed from it
recvfrom_reply(r, data) ==
    /\ calls[r].op \in {"discover_devices", "set_device_state"}
    /\ Exchanged(r, IF ParseError(data) = "" THEN "ok" ELSE "malformed", data)

NextParse ==
    \E r \in 1..MaxRequests :
        \/ discover_devices(r)
        \/ \E d \in Devices : set_device_state(r, d, 1)
        \/ \E data \in Replies : recvfrom_reply(r, data)
        \/ Finish(r)

SpecParse == Init /\ [][NextParse]_vars

\* ---- the pool lock and the event loop's thread, statement by statement ----
\* A request here is a send_command that runs one statement per step.  `running` is
\* the coroutine that has the thread: it keeps it until it ends or until an await
\* has to wait, which in a request can only be the entry of `async with
\* self._pool_lock` while another coroutine holds the lock.  sendto and recvfrom are
\* no awaits: while recvfrom waits for the hub the coroutine keeps the thread.
host == <<loop, hass, coordinator, switch, remote, inbox, refreshes>>

\* faulty variant: the exchange is inside the `async with` block of _get_connection
Then_exchangeUnderLock(pc) ==
    CASE pc = "enter_get" -> "get_nowait"
      [] pc = "get_nowait" -> "sendto"
      [] pc = "sendto" -> "recvfrom"
      [] pc = "recvfrom" -> "exit_get"
      [] pc = "exit_get" -> "enter_put"
      [] pc = "enter_put" -> "put_nowait"
      [] pc = "put_nowait" -> "exit_put"
      [] pc = "exit_put" -> "done"

\* the statement that follows statement pc in send_command, with _get_connection
\* and _return_connection written out
Then(pc) ==
    CASE pc = "enter_get" -> "get_nowait"
      [] pc = "get_nowait" -> "exit_get"
      [] pc = "exit_get" -> "sendto"
      [] pc = "sendto" -> "recvfrom"
      [] pc = "recvfrom" -> "enter_put"
      [] pc = "enter_put" -> "put_nowait"
      [] pc = "put_nowait" -> "exit_put"
      [] pc = "exit_put" -> "done"

\* the event loop starts the task of a request: create_message, up to the lock
task_send_command(r) ==
    /\ running = 0
    /\ NextRequest(r)
    /\ create_message("eps", <<<<"me", StrVal("")>>>>, 1)
    /\ calls' = [calls EXCEPT ![r] = [NewCall EXCEPT !.pc = "enter_get",
                   !.op = "discover_devices", !.id = MessageId(sequence),
                   !.time_out = SEND_TIME_OUT]]
    /\ running' = r
    /\ UNCHANGED <<pool, last, now, signed, caches, host, pool_lock>>

\* `async with self._pool_lock`: the lock is taken when it is free, and the coroutine
\* is suspended until it is free otherwise
lock_acquire(r) ==
    /\ calls[r].pc \in {"enter_get", "enter_put"}
    /\ running = r \/ (running = 0 /\ pool_lock = 0)
    /\ IF pool_lock = 0
       THEN /\ pool_lock' = r
            /\ running' = r
            /\ calls' = [calls EXCEPT ![r].pc = Then(@)]
       ELSE /\ running' = 0
            /\ UNCHANGED <<pool_lock, calls>>
    /\ UNCHANGED <<codec, pool, last, now, signed, caches, host>>

\* self._connection_pool.get_nowait(), or a new socket
get_nowait(r) ==
    /\ running = r
    /\ calls[r].pc = "get_nowait"
    /\ LET got == GetConnection(connection_pool, created) IN
        /\ connection_pool' = got.pool
        /\ created' = got.created
        /\ calls' = [calls EXCEPT ![r].pc = Then(@), ![r].sock = got.sock]
    /\ UNCHANGED <<codec, closed, last, now, signed, caches, host, thread>>

\* the end of an `async with self._pool_lock` block; after the one in
\* _return_connection the request returns or raises
lock_release(r) ==
    /\ running = r
    /\ calls[r].pc \in {"exit_get", "exit_put"}
    /\ pool_lock' = 0
    /\ IF Then(calls[r].pc) = "done"
       THEN /\ calls' = [calls EXCEPT ![r] = DoneCall]
            /\ last' = [op |-> calls[r].op, arg |-> calls[r].arg, sent |-> TRUE,
                        out |-> calls[r].out, result |-> Answer(calls[r]), at |-> now]
            /\ running' = 0
       ELSE /\ calls' = [calls EXCEPT ![r].pc = Then(@)]
            /\ UNCHANGED <<last, running>>
    /\ UNCHANGED <<codec, pool, now, signed, caches, host>>

\* sock.sendto(message, ...): the message is out, recvfrom is called next
sendto(r) ==
    /\ running = r
    /\ calls[r].pc = "sendto"
    /\ calls' = [calls EXCEPT ![r].pc = Then(@)]
    /\ UNCHANGED <<codec, pool, last, now, signed, caches, host, thread>>

\* sock.recvfrom(65535) returns or raises, and json.loads after it
recvfrom_ends(r, out) ==
    /\ running = r
    /\ calls[r].pc = "recvfrom"
    /\ calls' = [calls EXCEPT ![r].pc = Then(@), ![r].out = out]
    /\ UNCHANGED <<codec, pool, last, now, signed, caches, host, thread>>

\* self._connection_pool.put_nowait(sock), or sock.close()
put_nowait(r) ==
    /\ running = r
    /\ calls[r].pc = "put_nowait"
    /\ LET put == ReturnConnection(connection_pool, closed, calls[r].sock) IN
        /\ connection_pool' = put.pool
        /\ closed' = put.closed
        /\ calls' = [calls EXCEPT ![r].pc = Then(@)]
    /\ UNCHANGED <<codec, created, last, now, signed, caches, host, thread>>

NextLock ==
    \E r \in 1..MaxRequests :
        \/ task_send_command(r)
        \/ lock_acquire(r)
        \/ get_nowait(r)
        \/ lock_release(r)
        \/ sendto(r)
        \/ \E out \in Outcomes : recvfrom_ends(r, out)
        \/ put_nowait(r)

SpecLock == Init /\ [][NextLock]_vars

\* ---- the retry loops ----
\* _async_update_data and _async_get_device_data (coordinator), _retry_with_backoff
\* (sensor) and _retry_operation (API manager).  The loop record holds the loop
\* variable `attempt`, the delays slept so far, and what the loop returned or raised.
Refreshes == {"_async_update_data", "_async_get_device_data"}
ApiLoops == Refreshes \cup {"_retry_with_backoff"}

RECURSIVE Pow2(_)
Pow2(n) == IF n = 0 THEN 1 ELSE 2 * Pow2(n - 1)

\* the number of iterations of the loop
MaxAttempts(kind) ==
    CASE kind = "_retry_with_backoff" -> MAX_RETRY_ATTEMPTS
      [] kind = "_retry_operation" -> max_retries
      [] OTHER -> REFRESH_ATTEMPTS

\* the delay slept after the failure of attempt number `attempt` (counted from 0)
Delay(kind, attempt) ==
    CASE kind = "_retry_with_backoff" -> BASE_RETRY_DELAY * Pow2(attempt)
      [] kind = "_retry_operation" -> retry_delay * Pow2(attempt)
      [] OTHER -> REFRESH_SLEEP

\* faulty variant: a response with a code other than 0 is raised as an error
ExceptionOf_rejectionRaises(result) ==
    CASE result.kind = "response" /\ result.code # 0 -> "ProtocolError"
      [] result.kind # "error" -> ""
      [] result.err = "timeout" -> "TimeoutError"
      [] result.err = "oserror" -> "OSError"
      [] result.err = "decode" -> "JSONDecodeError"
      [] OTHER -> result.err

\* the class of the exception an attempt ended with, "" when it returned a value:
\* socket.timeout is TimeoutError, a body that does not decode raises
\* UnicodeDecodeError or JSONDecodeError (both ValueError)
ExceptionOf(result) ==
    CASE result.kind # "error" -> ""
      [] result.err = "timeout" -> "TimeoutError"
      [] result.err = "oserror" -> "OSError"
      [] result.err = "decode" -> "JSONDecodeError"
      [] OTHER -> result.err

\* the except clause that lets the loop go on.  The coordinator catches
\* asyncio.TimeoutError, which is the class of socket.timeout where
\* asyncio.TimeoutError is an alias of TimeoutError (Python 3.11 and later) and a
\* class of its own before; the awaited call never suspends for long, so wait_for
\* itself never times out.
Retries(kind, alias, exc) ==
    CASE kind = "_retry_with_backoff" -> TRUE
      [] kind = "_retry_operation" ->
            exc \in {"RequestException", "JSONDecodeError", "ConnectionError"}
      [] OTHER -> exc = "asyncio.TimeoutError" \/ (alias /\ exc = "TimeoutError")

\* faulty variant: after the last attempt the loop ends without raising
AfterFailure_swallowed(kind, alias, attempt, exc) ==
    IF ~Retries(kind, alias, exc) THEN "raise"
    ELSE IF attempt = MaxAttempts(kind) - 1 THEN "return" ELSE "sleep"

\* what the loop does with an attempt that raised exc
AfterFailure(kind, alias, attempt, exc) ==
    IF ~Retries(kind, alias, exc) THEN "raise"
    ELSE IF attempt = MaxAttempts(kind) - 1 THEN "raise" ELSE "sleep"

\* faulty variant: the coordinator lets the exception it caught leave the refresh
RaisedError_unwrapped(kind, exc) == exc

\* the exception that leaves the loop: the coordinator wraps every failure in
\* UpdateFailed, the other loops re-raise the exception they caught
RaisedError(kind, exc) == IF kind \in Refreshes THEN "UpdateFailed" ELSE exc

\* formatted_data: {"msg": [...]}
Data(msg) == [kind |-> "data", code |-> 0, re |-> 0, err |-> "", msg |-> msg]
Value == [kind |-> "value", code |-> 0, re |-> 0, err |-> "", msg |-> <<>>]

\* what the loop returns when an attempt returned result
Returned(kind, result) ==
    IF kind \in Refreshes
    THEN Data(IF result.kind \in {"response", "devices"} THEN result.msg ELSE <<>>)
    ELSE result

\* the loop record at the first iteration
Entered(kind, arg, alias) ==
    [NoLoop EXCEPT !.kind = kind, !.pc = "attempt", !.arg = arg, !.alias = alias,
                   !.entered = loop.entered + 1, !.base = Cardinality(Started)]

\* a retry loop is entered: the first time, or after the loop before it has ended
Enter(kind, arg, alias) ==
    /\ loop.pc \in {"idle", "returned", "raised"}
    /\ loop.entered < MaxLoops
    /\ loop' = Entered(kind, arg, alias)
    /\ UNCHANGED <<codec, pool, calls, last, now, signed, caches, hass, coordinator, outer, thread>>

async_update_data(alias) == Enter("_async_update_data", <<>>, alias)
async_get_device_data(device_id, alias) == Enter("_async_get_device_data", <<device_id>>, alias)

\* coordinator.async_set_device_state.  While the coordinator is available:
\* async_add_executor_job calls api.set_device_state in a worker thread, which only
\* creates a coroutine object that nothing awaits, so no message is built or sent for
\* the new state; then async_refresh() enters _async_update_data.
async_set_device_state(device_id, val, alias) ==
    IF ~coordinator.available
    THEN UNCHANGED vars
    ELSE /\ loop.pc \in {"idle", "returned", "raised"}
         /\ loop.entered < MaxLoops
         /\ loop' = [Entered("_async_update_data", <<>>, alias)
                        EXCEPT !.caller = "async_set_device_state"]
         /\ UNCHANGED <<codec, pool, calls, last, now, signed, caches, hass, coordinator,
                        outer, thread>>

\* coordinator.get_device(device_id): the device's data, or the empty mapping
coordinator_get_device(device_id) ==
    IF device_id \in coordinator.devices THEN <<device_id>> ELSE <<>>

\* coordinator.get_devices()
coordinator_get_devices == coordinator.devices

\* the sensor's _async_update enters the wrapper around api.send_command
retry_with_backoff == Enter("_retry_with_backoff", <<>>, FALSE)
retry_operation == Enter("_retry_operation", <<>>, FALSE)

\* the request of the attempt in progress
AttemptRequest == loop.base + loop.attempt + 1
Attempting(kind, r) == loop.kind = kind /\ loop.pc = "attempt" /\ r = AttemptRequest

\* api.get_devices(), up to the first await of the send_command under it
get_devices(r) ==
    /\ Attempting("_async_update_data", r)
    /\ send_command(r, "get_devices", <<>>, "eps", <<<<"me", StrVal("")>>>>, 1,
                    SEND_TIME_OUT)

attempt_discover_devices_by_id(r) ==
    Attempting("_async_get_device_data", r) /\ discover_devices_by_id(r, loop.arg[1], timout)

\* func(*args): api.send_command("ep", args, CMD_GET) with the temperature sensor's args
attempt_send_command(r) ==
    /\ Attempting("_retry_with_backoff", r)
    /\ send_command(r, "send_command", <<>>, "ep",
                    <<<<"tag", StrVal("m")>>, <<"me", StrVal("dev1")>>,
                      <<"idx", StrVal("T")>>, <<"type", StrVal("T")>>,
                      <<"val", IntVal(0)>>>>, CMD_GET, SEND_TIME_OUT)

\* what the operation handed to _retry_operation may end with
OperationOutcomes == {"ok", "RequestException", "JSONDecodeError", "ConnectionError",
                      "ValueError", "OSError"}

\* operation(*args, **kwargs)
attempt_operation(f) ==
    /\ loop.kind = "_retry_operation"
    /\ loop.pc = "attempt"
    /\ loop' = [loop EXCEPT !.pc = "ran"]
    /\ last' = [op |-> "operation", arg |-> <<>>, sent |-> FALSE, out |-> "",
                result |-> IF f = "ok" THEN Value ELSE Error(f), at |-> now]
    /\ UNCHANGED <<codec, pool, calls, now, signed, caches, hass, coordinator, outer, thread>>

\* the attempt in progress has returned or raised
AttemptOver ==
    \/ loop.pc = "ran"
    \/ /\ loop.pc = "attempt"
       /\ loop.kind \in ApiLoops
       /\ AttemptRequest \in DOMAIN calls
       /\ calls[AttemptRequest].pc = "done"

\* the loop's step after an attempt: return its value, sleep before the next attempt,
\* or raise
attempt_ends ==
    /\ AttemptOver
    /\ LET exc == ExceptionOf(last.result)
           then == IF exc = "" THEN "return"
                   ELSE AfterFailure(loop.kind, loop.alias, loop.attempt, exc)
       IN  loop' =
             CASE then = "return" ->
                    [loop EXCEPT !.pc = "returned",
                                 !.result = IF exc = "" THEN Returned(loop.kind, last.result)
                                            ELSE None]
               [] then = "sleep" ->
                    [loop EXCEPT !.pc = "sleep", !.cause = exc,
                                 !.waits = Append(@, Delay(loop.kind, loop.attempt))]
               [] OTHER ->
                    [loop EXCEPT !.pc = "raised", !.cause = exc,
                                 !.result = Error(RaisedError(loop.kind, exc))]
    /\ UNCHANGED <<codec, pool, calls, last, now, signed, caches, hass, coordinator, outer, thread>>

\* await asyncio.sleep(delay), then the next iteration
sleep ==
    /\ loop.pc = "sleep"
    /\ now' = now + loop.waits[Len(loop.waits)]
    /\ loop' = [loop EXCEPT !.pc = "attempt", !.attempt = @ + 1]
    /\ UNCHANGED <<codec, pool, calls, last, signed, caches, hass, coordinator, outer, thread>>

NextRetry ==
    \/ \E alias \in BOOLEAN : async_update_data(alias)
    \/ \E d \in Devices, alias \in BOOLEAN : async_get_device_data(d, alias)
    \/ \E d \in Devices, alias \in BOOLEAN : async_set_device_state(d, 1, alias)
    \/ retry_with_backoff
    \/ retry_operation
    \/ \E r \in 1..MaxLoopRequests :
        \/ get_devices(r)
        \/ attempt_discover_devices_by_id(r)
        \/ attempt_send_command(r)
        \/ \E out \in Outcomes : Exchange(r, out)
        \/ Finish(r)
    \/ \E f \in OperationOutcomes : attempt_operation(f)
    \/ attempt_ends
    \/ sleep

SpecRetry == InitRetry /\ [][NextRetry]_vars

\* ---- async_setup_entry ----
\* entry.data holds, for each required field in order, a Python value or nothing
required_fields == <<"host", "model", "token">>
Absent == [t |-> "absent", s |-> "", n |-> 0]
ConfigValues == {Absent, StrVal(""), StrVal("hub"), IntVal(0), IntVal(7)}
Entries == [DOMAIN required_fields -> ConfigValues]

\* bool(entry.data.get(field))
Truthy(v) == (v.t = "str" /\ v.s # "") \/ (v.t = "int" /\ v.n # 0)

\* faulty variant: the type of the value is not examined
IsInstanceStr_anyType(v) == TRUE

\* isinstance(entry.data[field], str)
IsInstanceStr(v) == v.t = "str"

\* _validate_config: the fields are examined in order up to the first that raises
\* LifeSmartConfigError
validate_config(data) ==
    LET bad == {i \in DOMAIN data : ~(Truthy(data[i]) /\ IsInstanceStr(data[i]))} IN
    IF bad = {} THEN [ok |-> TRUE, checked |-> Len(data)]
    ELSE [ok |-> FALSE, checked |-> CHOOSE i \in bad : \A j \in bad : i <= j]

\* async_setup_entry up to its first await: the validation, then api_manager.initialize()
\* entering _retry_operation(_init)
async_setup_entry(data) ==
    /\ hass.pc = "new"
    /\ loop.pc = "idle"
    /\ LET v == validate_config(data) IN
        IF v.ok
        THEN /\ hass' = [hass EXCEPT !.pc = "initialize", !.entry = data,
                                     !.checked = v.checked]
             /\ loop' = Entered("_retry_operation", <<>>, FALSE)
        ELSE /\ hass' = [hass EXCEPT !.pc = "done", !.entry = data,
                                     !.checked = v.checked, !.result = "False"]
             /\ loop' = loop
    /\ UNCHANGED <<codec, pool, calls, last, now, signed, caches, coordinator, outer, thread>>

\* initialize() has returned or raised: on an API instance the coordinator is made and
\* both are stored in hass.data; LifeSmartConnectionError / LifeSmartConfigError end
\* the setup with False; any other exception leaves async_setup_entry
initialized ==
    /\ hass.pc = "initialize"
    /\ loop.pc \in {"returned", "raised"}
    /\ hass' =
         CASE loop.pc = "returned" ->
                [hass EXCEPT !.pc = "platforms", !.apis = @ + 1, !.coordinators = @ + 1,
                             !.data = @ \cup {"entry_id"}, !.api = TRUE]
           [] loop.result.err \in {"RequestException", "JSONDecodeError", "ValueError",
                                   "ConnectionError"} ->
                [hass EXCEPT !.pc = "done", !.result = "False"]
           [] OTHER ->
                [hass EXCEPT !.pc = "done", !.result = "raised"]
    /\ UNCHANGED <<codec, pool, calls, last, now, signed, caches, loop, coordinator, outer, thread>>

\* one iteration of the platform setup loop: async_forward_entry_setups returns or
\* raises; after the third failure the setup returns False
forward_entry_setups(f) ==
    /\ hass.pc = "platforms"
    /\ hass' =
         CASE f = "ok" -> [hass EXCEPT !.pc = "done", !.result = "True"]
           [] hass.attempt = max_retries - 1 -> [hass EXCEPT !.pc = "done", !.result = "False"]
           [] OTHER -> [hass EXCEPT !.pc = "sleep",
                                    !.waits = Append(@, retry_delay * Pow2(hass.attempt))]
    /\ UNCHANGED <<codec, pool, calls, last, now, signed, caches, loop, coordinator, outer, thread>>

\* await asyncio.sleep(delay) in the platform setup loop
platform_sleep ==
    /\ hass.pc = "sleep"
    /\ now' = now + hass.waits[Len(hass.waits)]
    /\ hass' = [hass EXCEPT !.pc = "platforms", !.attempt = @ + 1]
    /\ UNCHANGED <<codec, pool, calls, last, signed, caches, loop, coordinator, outer, thread>>

\* ---- unloading the entry ----
\* the methods of a LifeSmartAPI instance
ApiMethods ==
    {"_init_connection_pool", "_get_connection", "_return_connection", "_create_signature",
     "create_message", "get_devices", "set_device_state", "send_command",
     "discover_devices", "discover_devices_by_id", "get_state_updates", "get_remote_list",
     "get_remote_keys", "send_remote_key"}

\* the method cleanup closes the API with: async_close if the API has one, else close
\* if it has one, else none
CloseMethod ==
    IF "async_close" \in ApiMethods THEN "async_close"
    ELSE IF "close" \in ApiMethods THEN "close"
    ELSE ""

\* async_unload_entry up to the first await of _async_unload_platforms
async_unload_entry ==
    /\ hass.pc = "done"
    /\ hass.result = "True"
    /\ hass.unloaded = ""
    /\ hass' = [hass EXCEPT !.pc = "unload", !.attempt = 0, !.waits = <<>>]
    /\ UNCHANGED <<codec, pool, calls, last, now, signed, caches, loop, coordinator, outer, thread>>

\* LifeSmartAPIManager.cleanup: the API is closed with the method found, whatever that
\* call does or raises, and the manager drops its API instance; with no method to
\* close it, no socket of the API's pool is closed
cleanup ==
    /\ hass' = [hass EXCEPT !.pc = "done", !.unloaded = "True", !.api = FALSE,
                            !.data = @ \ {"entry_id"}]
    /\ closed' = IF hass.api /\ CloseMethod # "" THEN 1..created ELSE closed

\* one iteration of the loop of _async_unload_platforms: the gather returns with every
\* platform unloaded, returns with a platform that did not unload, or raises.  When
\* every platform unloaded, async_unload_entry goes on to api_manager.cleanup(),
\* coordinator.async_shutdown() and the removal of the entry from hass.data.
forward_entry_unload(f) ==
    /\ hass.pc = "unload"
    /\ CASE f = "True" -> cleanup
         [] f = "False" ->
              /\ hass' = [hass EXCEPT !.pc = "done", !.unloaded = "False"]
              /\ closed' = closed
         [] hass.attempt = max_retries - 1 ->
              /\ hass' = [hass EXCEPT !.pc = "done", !.unloaded = "raised"]
              /\ closed' = closed
         [] OTHER ->
              /\ hass' = [hass EXCEPT !.pc = "unload_sleep",
                                      !.waits = Append(@, retry_delay * Pow2(hass.attempt))]
              /\ closed' = closed
    /\ UNCHANGED <<codec, connection_pool, created, calls, last, now, signed, caches, loop,
                   coordinator, outer, thread>>

\* await asyncio.sleep(delay) in the loop of _async_unload_platforms
unload_sleep ==
    /\ hass.pc = "unload_sleep"
    /\ now' = now + hass.waits[Len(hass.waits)]
    /\ hass' = [hass EXCEPT !.pc = "unload", !.attempt = @ + 1]
    /\ UNCHANGED <<codec, pool, calls, last, signed, caches, loop, coordinator, outer, thread>>

NextSetup ==
    \/ \E data \in Entries : async_setup_entry(data)
    \/ \E f \in OperationOutcomes : attempt_operation(f)
    \/ attempt_ends
    \/ sleep
    \/ initialized
    \/ \E f \in {"ok", "Exception"} : forward_entry_setups(f)
    \/ platform_sleep
    \/ async_unload_entry
    \/ \E f \in {"True", "False", "Exception"} : forward_entry_unload(f)
    \/ unload_sleep

SpecSetup == Init /\ [][NextSetup]_vars

\* ---- late replies in the receive buffers of the pooled sockets ----
\* Requests here run one after the other, each in one step (the exchange is made of
\* blocking calls).  inbox holds the datagrams that arrived on a socket and were not
\* read yet, oldest first; a datagram is [sock, re]: the socket it arrived on and the
\* id of the message it replies to.  The hub answers a request in time, answers it
\* after the request's recvfrom has ended, or does not answer.
MaxLateRequests == 7    \* requests made under SpecLate
HubBehaviours == {"answers", "answers_late", "silent"}

\* the datagrams waiting on socket s, oldest first
Buffered(s) == SelectSeq(inbox, LAMBDA d : d.sock = s)

\* the buffers after recvfrom on socket s took its oldest datagram
RECURSIVE Taken(_, _)
Taken(buffers, s) ==
    IF buffers = <<>> THEN <<>>
    ELSE IF Head(buffers).sock = s THEN Tail(buffers)
    ELSE <<Head(buffers)>> \o Taken(Tail(buffers), s)

\* discover_devices_by_id("dev1"): send_command builds the message, borrows a socket,
\* sends, and recvfrom returns the first datagram that is or comes to be in the
\* socket's buffer, or raises socket.timeout; the socket goes back to the pool
late_discover_devices_by_id(hub) ==
    /\ Len(built) < MaxLateRequests
    /\ create_message("ep", <<<<"me", StrVal("dev1")>>>>, CMD_GET)
    /\ LET got == GetConnection(connection_pool, created)
           waiting == Buffered(got.sock)
           own == [sock |-> got.sock, re |-> MessageId(sequence)]
           answered == waiting # <<>> \/ hub = "answers"
           data == IF waiting # <<>> THEN Head(waiting) ELSE own
           out == IF answered THEN "ok" ELSE "timeout"
           unread == IF waiting # <<>> THEN hub # "silent" ELSE hub = "answers_late"
           put == ReturnConnection(got.pool, closed, got.sock)
       IN
        /\ connection_pool' = put.pool
        /\ created' = got.created
        /\ closed' = put.closed
        /\ inbox' = (IF waiting # <<>> THEN Taken(inbox, got.sock) ELSE inbox)
                        \o (IF unread THEN <<own>> ELSE <<>>)
        /\ last' = [op |-> "discover_devices_by_id", arg |-> <<"dev1">>, sent |-> TRUE,
                    out |-> out, at |-> now,
                    result |-> IF answered THEN Response(0, data.re, <<>>)
                               ELSE Error("timeout")]
    /\ UNCHANGED <<calls, now, signed, caches, loop, hass, coordinator, switch, remote,
                   refreshes, thread>>

NextLate == \E hub \in HubBehaviours : late_discover_devices_by_id(hub)

SpecLate == Init /\ [][NextLate]_vars

\* ---- the per-device refreshes under the coordinator's lock ----
\* Each task t is one call of _async_get_device_data("dev1").  coordinator.lock is
\* the task that holds self._lock (0 when it is free), coordinator.waiters the tasks
\* suspended in its acquire, in order of arrival.  A task is suspended while it waits
\* for the lock and in asyncio.sleep(1); an attempt (the request to the hub, made of
\* blocking socket calls) is one step.
\* faulty variant: the lock is released when data is returned, and kept when the
\* refresh raises
LockAfter_keptOnRaise(then, t) == IF then = "return" THEN 0 ELSE t

\* the holder of the lock after an attempt of its holder t: `async with` releases it
\* when the block is left, by return or by raise
LockAfter(then, t) == IF then = "sleep" THEN t ELSE 0

\* `async with self._lock`: Lock.acquire takes a free lock nobody waits for and joins
\* the waiters otherwise
refresh_called(t, alias) ==
    /\ refreshes[t].pc = "new"
    /\ IF coordinator.lock = 0 /\ coordinator.waiters = <<>>
       THEN /\ coordinator' = [coordinator EXCEPT !.lock = t]
            /\ refreshes' = [refreshes EXCEPT ![t].pc = "attempt", ![t].alias = alias]
       ELSE /\ coordinator' = [coordinator EXCEPT !.waiters = Append(@, t)]
            /\ refreshes' = [refreshes EXCEPT ![t].pc = "waiting", ![t].alias = alias]
    /\ UNCHANGED <<codec, pool, calls, last, now, signed, caches, loop, hass, switch,
                   remote, inbox, thread>>

\* the lock was released: its first waiter is woken and takes it
refresh_wakes(t) ==
    /\ refreshes[t].pc = "waiting"
    /\ coordinator.lock = 0
    /\ Head(coordinator.waiters) = t
    /\ coordinator' = [coordinator EXCEPT !.lock = t, !.waiters = Tail(@)]
    /\ refreshes' = [refreshes EXCEPT ![t].pc = "attempt"]
    /\ UNCHANGED <<codec, pool, calls, last, now, signed, caches, loop, hass, switch,
                   remote, inbox, thread>>

\* one iteration of the loop: discover_devices_by_id builds its message, borrows a
\* connection, exchanges with outcome `out` and returns the connection; then the
\* refresh returns its data, sleeps before the next attempt, or raises UpdateFailed
refresh_attempt(t, out) ==
    /\ refreshes[t].pc = "attempt"
    /\ create_message("ep", <<<<"me", StrVal("dev1")>>>>, CMD_GET)
    /\ LET got == GetConnection(connection_pool, created)
           put == IF FinallyRuns(out) THEN ReturnConnection(got.pool, closed, got.sock)
                  ELSE [pool |-> got.pool, closed |-> closed]
           result == ExchangeResult(out, MessageId(sequence), <<>>)
           exc == ExceptionOf(result)
           then == IF exc = "" THEN "return"
                   ELSE AfterFailure("_async_get_device_data", refreshes[t].alias,
                                     refreshes[t].attempt, exc)
       IN
        /\ connection_pool' = put.pool
        /\ created' = got.created
        /\ closed' = put.closed
        /\ last' = [op |-> "discover_devices_by_id", arg |-> <<"dev1">>, sent |-> TRUE,
                    out |-> out, result |-> result, at |-> now]
        /\ refreshes' =
             CASE then = "return" -> [refreshes EXCEPT ![t].pc = "returned",
                                                       ![t].result = "data"]
               [] then = "sleep" -> [refreshes EXCEPT ![t].pc = "sleep"]
               [] OTHER -> [refreshes EXCEPT ![t].pc = "raised",
                              ![t].result = RaisedError("_async_get_device_data", exc)]
        /\ coordinator' = [coordinator EXCEPT !.lock = LockAfter(then, t)]
    /\ UNCHANGED <<calls, now, signed, caches, loop, hass, switch, remote, inbox, thread>>

\* await asyncio.sleep(1) is over: the next iteration
refresh_sleep_over(t) ==
    /\ refreshes[t].pc = "sleep"
    /\ refreshes' = [refreshes EXCEPT ![t].pc = "attempt", ![t].attempt = @ + 1]
    /\ now' = now + REFRESH_SLEEP
    /\ UNCHANGED <<codec, pool, calls, last, signed, caches, loop, hass, coordinator,
                   switch, remote, inbox, thread>>

RefreshOutcomes == {"ok", "timeout", "oserror"}

\* the steps of tasks that were called
RefreshRuns ==
    \E t \in 1..MaxRefreshes :
        \/ refresh_wakes(t)
        \/ \E out \in RefreshOutcomes : refresh_attempt(t, out)
        \/ refresh_sleep_over(t)

NextRefresh ==
    \/ \E t \in 1..MaxRefreshes, alias \in BOOLEAN : refresh_called(t, alias)
    \/ RefreshRuns

SpecRefresh == Init /\ [][NextRefresh]_vars

\* task t can take a step: it holds the lock, or it is the first waiter of a free lock
Runnable(t) ==
    \/ refreshes[t].pc \in {"attempt", "sleep"}
    \/ /\ refreshes[t].pc = "waiting"
       /\ coordinator.lock = 0
       /\ Head(coordinator.waiters) = t

\* The event loop runs a task that can run, and a blocking call returns: weak
\* fairness of RefreshRuns, WF_vars(RefreshRuns), with ENABLED <<RefreshRuns>>_vars
\* written as the state predicate it amounts to.
FairRefresh ==
    /\ SpecRefresh
    /\ \/ []<>(\A t \in 1..MaxRefreshes : ~Runnable(t))
       \/ []<><<RefreshRuns>>_vars

\* ---- the switch entity ----
\* switch.pending holds the accepted actions that wait in `await
\* self.coordinator.async_set_device_state(...)`, switch.accepted the times at which
\* actions were accepted, switch.action the action that was called or that ended last
\* and how: "ignored" (an early return), "accepted", "ok" or "raised".  The
\* coordinator's call is taken by its outcome: it returns or it raises.
EPOCH == 1700000000

\* time.time(): seconds since 1970
time_time == EPOCH + now

\* self._min_time_between_actions
min_time_between_actions == 1

\* LifeSmartSwitch.__init__ on a device whose data[idx]['val'] is val
switch_init(val) ==
    /\ switch.pc = "new"
    /\ switch' = [NewSwitch EXCEPT !.pc = "idle", !.state = (val # 0), !.available = TRUE]
    /\ UNCHANGED <<codec, pool, calls, last, now, signed, caches, loop, hass, coordinator,
                   remote, inbox, refreshes, thread>>

\* faulty variant: the interval is not enforced
TooSoon_never(current_time) == FALSE

\* current_time - self._last_action_time < self._min_time_between_actions
TooSoon(current_time) == current_time - switch.last_action_time < min_time_between_actions

Action(op, outcome, before, at) == [op |-> op, outcome |-> outcome, before |-> before, at |-> at]

\* an action that passed the early returns: up to the await of the coordinator's call
Accept(op) ==
    [switch EXCEPT !.last_action_time = time_time,
                   !.pending = @ \cup {Action(op, "accepted", switch.state, time_time)},
                   !.accepted = Append(@, time_time),
                   !.action = Action(op, "accepted", switch.state, time_time)]

Ignore(op) == [switch EXCEPT !.action = Action(op, "ignored", switch.state, time_time)]

async_turn_on ==
    /\ switch.pc = "idle"
    /\ switch' = IF switch.state \/ TooSoon(time_time) THEN Ignore("turn_on")
                 ELSE Accept("turn_on")
    /\ UNCHANGED <<codec, pool, calls, last, now, signed, caches, loop, hass, coordinator,
                   remote, inbox, refreshes, thread>>

async_turn_off ==
    /\ switch.pc = "idle"
    /\ switch' = IF TooSoon(time_time) THEN Ignore("turn_off") ELSE Accept("turn_off")
    /\ UNCHANGED <<codec, pool, calls, last, now, signed, caches, loop, hass, coordinator,
                   remote, inbox, refreshes, thread>>

\* the coordinator's call of the pending action a returns (f = "ok") or raises: the
\* rest of the try block, or the except clause and the re-raise
set_state_ends(a, f) ==
    /\ a \in switch.pending
    /\ switch' =
         IF f = "ok"
         THEN [switch EXCEPT !.state = (a.op = "turn_on"), !.pending = @ \ {a},
                             !.action = [a EXCEPT !.outcome = "ok"]]
         ELSE [switch EXCEPT !.state = (a.op = "turn_off"), !.available = FALSE,
                             !.pending = @ \ {a},
                             !.action = [a EXCEPT !.outcome = "raised"]]
    /\ UNCHANGED <<codec, pool, calls, last, now, signed, caches, loop, hass, coordinator,
                   remote, inbox, refreshes, thread>>

\* _async_handle_update: the coordinator's data has the value v for the switch
async_handle_update(v) ==
    /\ switch.pc = "idle"
    /\ switch' = [switch EXCEPT !.state = (v # 0), !.available = TRUE]
    /\ UNCHANGED <<codec, pool, calls, last, now, signed, caches, loop, hass, coordinator,
                   remote, inbox, refreshes, thread>>

NextSwitch ==
    \/ \E val \in Vals : switch_init(val)
    \/ async_turn_on
    \/ async_turn_off
    \/ \E a \in switch.pending, f \in {"ok", "Exception"} : set_state_ends(a, f)
    \/ \E v \in Vals : async_handle_update(v)
    \/ Tick(1)

SpecSwitch == Init /\ [][NextSwitch]_vars

\* ---- the remote entity ----
\* The entity was built from one remote, r1, and its keys.  A command string is the
\* sequence of its pieces between "::" separators.  async_send_command runs up to
\* the send_remote_key call it makes next (remote.pc = "call"); the call is a request
\* of the API, and the entity goes on when that request has returned or raised.
MaxCommands == 2         \* command strings of one async_send_command call

\* self._remote_details[remote_id]["keys"]
remote_details == [rid \in {"r1"} |-> RemoteKeyNames]

\* self._all_keys
all_keys == [key \in RemoteKeyNames |-> "r1"]

Commands ==
    {<<"power">>, <<"mute">>, <<"r1", "power">>, <<"r1", "mute">>, <<"r2", "power">>,
     <<"r1", "power", "x">>}
CommandLists == UNION {[1..n -> Commands] : n \in 0..MaxCommands}

Skip == [kind |-> "skip", rid |-> "", key |-> "", err |-> ""]
SendKey(rid, key) == [kind |-> "send", rid |-> rid, key |-> key, err |-> ""]
Raise(err) == [kind |-> "raise", rid |-> "", key |-> "", err |-> err]

\* what one iteration of the loop does with cmd, up to the try statement
Dispatch(cmd) ==
    IF Len(cmd) > 1
    THEN IF Len(cmd) # 2 THEN Raise("ValueError")
         ELSE IF cmd[1] \in DOMAIN remote_details /\ cmd[2] \in remote_details[cmd[1]]
              THEN SendKey(cmd[1], cmd[2])
              ELSE Skip
    ELSE IF cmd[1] \in DOMAIN all_keys THEN SendKey(all_keys[cmd[1]], cmd[1])
         ELSE Skip

\* the commands left when the iterations that neither send nor raise are over
RECURSIVE Skipped(_)
Skipped(todo) ==
    IF todo = <<>> \/ Dispatch(Head(todo)).kind # "skip" THEN todo
    ELSE Skipped(Tail(todo))

\* the loop from the commands `todo` on, up to the next send_remote_key call, to the
\* exception that leaves the function, or to the end of the list
Advance(e, todo) ==
    LET rest == Skipped(todo) IN
    IF rest = <<>> THEN [e EXCEPT !.pc = "done", !.todo = <<>>, !.result = "None"]
    ELSE LET d == Dispatch(Head(rest)) IN
         IF d.kind = "raise"
         THEN [e EXCEPT !.pc = "done", !.todo = Tail(rest), !.result = d.err]
         ELSE [e EXCEPT !.pc = "call", !.todo = Tail(rest),
                        !.sent = Append(@, <<d.rid, d.key>>)]

async_send_command(command) ==
    /\ remote.pc = "idle"
    /\ remote' = Advance([remote EXCEPT !.command = command], command)
    /\ UNCHANGED <<codec, pool, calls, last, now, signed, caches, loop, hass, coordinator,
                   switch, inbox, refreshes, thread>>

\* await self._api.send_remote_key(remote_id, key), up to the request's first await
remote_send_remote_key(r) ==
    /\ remote.pc = "call"
    /\ Cardinality(Started) = Len(remote.sent) - 1
    /\ send_remote_key(r, remote.sent[Len(remote.sent)][1], remote.sent[Len(remote.sent)][2])

\* the request has returned or raised: `except Exception` logs the error, and the
\* loop goes on with the next command
remote_resumes ==
    /\ remote.pc = "call"
    /\ Cardinality(Started) = Len(remote.sent)
    /\ calls[Len(remote.sent)].pc = "done"
    /\ remote' = Advance([remote EXCEPT !.failed = IF last.result.kind = "error"
                                                  THEN @ + 1 ELSE @], remote.todo)
    /\ UNCHANGED <<codec, pool, calls, last, now, signed, caches, loop, hass, coordinator,
                   switch, inbox, refreshes, thread>>

NextRemote ==
    \/ \E command \in CommandLists : async_send_command(command)
    \/ \E r \in 1..MaxRequests :
        \/ remote_send_remote_key(r)
        \/ \E out \in Outcomes : Exchange(r, out)
        \/ Finish(r)
    \/ remote_resumes

SpecRemote == Init /\ [][NextRemote]_vars

\* ---- _create_signature on argument mappings in every insertion order ----
SigPairs == {<<"me", StrVal("dev1")>>, <<"idx", StrVal("L1")>>,
             <<"val", IntVal(0)>>, <<"val", IntVal(1)>>}
SigTimes == {0, 12}

\* the mappings: no key twice
ArgMappings ==
    {args \in UNION {[1..n -> SigPairs] : n \in 0..MaxArgs} :
        \A i, j \in DOMAIN args : i # j => args[i][1] # args[j][1]}

sign(obj, args, ts) ==
    /\ signed' = <<signed[2], [obj |-> obj, args |-> args, ts |-> ts,
                               sign |-> create_signature(obj, args, ts)]>>
    /\ UNCHANGED <<codec, pool, calls, last, now, caches, glue>>

NextSig == \E args \in ArgMappings, ts \in SigTimes : sign("ep", args, ts)

SpecSig == Init /\ [][NextSig]_vars

\* ---- the connection pool: claims ----
\* a step in which _get_connection returns to request r / r leaves its finally clause
HasConnection == {"holding", "release"}
Acquiring(r) == calls[r].pc \notin HasConnection /\ calls'[r].pc \in HasConnection
Releasing(r) == calls[r].pc \in HasConnection /\ calls'[r].pc \notin HasConnection

\* Idle (in the queue), Borrowed (held by a request), Closed, or not yet created
SocketState(q, held, cl, s) ==
    CASE s \in cl -> "Closed"
      [] s \in held -> "Borrowed"
      [] s \in Range(q) -> "Idle"
      [] OTHER -> "None"

\* C4: the pool never holds more than 5 idle connections, and a connection released
\* while 5 are idle is closed and not retained.
C4_PoolWithinCapacity ==
    /\ [](Len(connection_pool) <= POOL_SIZE)
    /\ [][\A r \in DOMAIN calls :
            (Releasing(r) /\ Len(connection_pool) = POOL_SIZE) =>
                /\ calls[r].sock \in closed'
                /\ connection_pool' = connection_pool]_vars

C4_Witness_ClosedOnFullPool ==
    /\ closed # {}
    /\ Len(connection_pool) = POOL_SIZE

\* C5: a connection released while the pool has room is idle in the pool and open,
\* and an acquire that finds an idle connection takes it instead of creating a socket.
C5_ReleasedIsReusable ==
    /\ [](Range(connection_pool) \cap closed = {})
    /\ [][\A r \in DOMAIN calls :
            /\ (Releasing(r) /\ Len(connection_pool) < POOL_SIZE) =>
                   /\ connection_pool' = Append(connection_pool, calls[r].sock)
                   /\ calls[r].sock \notin closed'
            /\ (Acquiring(r) /\ connection_pool # <<>>) =>
                   /\ calls'[r].sock = Head(connection_pool)
                   /\ created' = created]_vars

\* the pool starts with sockets 1..5 and is FIFO, so the sixth acquisition (or a later
\* one) that got one of them got a socket an earlier request borrowed and released
C5_Witness_ReusedAfterRelease ==
    \E r \in Holders :
        /\ r > INIT_SOCKETS
        /\ calls[r].sock <= INIT_SOCKETS

\* C6: acquire never fails and never waits: with no idle connection it creates a new
\* one, so more than 5 requests can hold a connection at the same time.
C6_AcquireNeverBlocks ==
    /\ [](\A r \in DOMAIN calls : NextRequest(r) => ENABLED get_connection(r))
    /\ [][\A r \in DOMAIN calls :
            Acquiring(r) =>
                /\ calls'[r].sock \in 1..created'
                /\ calls'[r].sock \notin closed'
                /\ connection_pool = <<>> =>
                       (created' = created + 1 /\ calls'[r].sock = created')]_vars

C6_Witness_MoreThanPoolSizeBorrowed == Cardinality(Borrowed) > POOL_SIZE

\* C8: no connection is held by two requests, none is idle and borrowed at once, a
\* closed one is neither idle nor borrowed, and each socket only moves
\* Idle -> Borrowed -> Idle | Closed.
C8_DistinctConnections ==
    /\ [](/\ \A r1, r2 \in Holders : r1 # r2 => calls[r1].sock # calls[r2].sock
          /\ Range(connection_pool) \cap Borrowed = {}
          /\ closed \cap (Range(connection_pool) \cup Borrowed) = {}
          /\ Cardinality(Range(connection_pool)) = Len(connection_pool)
          /\ Range(connection_pool) \cup Borrowed \cup closed = 1..created)
    /\ [][\A s \in 1..created :
            LET before == SocketState(connection_pool, Borrowed, closed, s)
                after == SocketState(connection_pool', Borrowed', closed', s)
            IN  \/ after = before
                \/ before = "Idle" /\ after = "Borrowed"
                \/ before = "Borrowed" /\ after \in {"Idle", "Closed"}]_vars

\* at a close the pool is full, so a pool below capacity after a close means that a
\* connection was handed out after a socket had been closed
C8_Witness_AcquireAfterClose ==
    /\ closed # {}
    /\ Len(connection_pool) < POOL_SIZE
    /\ Holders # {}

\* ---- the message builder: claims ----
\* C1: the k-th message built by create_message carries id k, whatever operations
\* built the messages and however their exchanges ended.
C1_KthMessageHasIdK ==
    /\ \A k \in DOMAIN built : built[k] = k
    /\ built # <<>> => wire.id = Len(built)

C1_Witness_IdsAfterFailedSend ==
    /\ Len(built) >= 3
    /\ last.sent
    /\ last.result.kind = "error"

\* C2: no two built messages carry the same sequence id, under every interleaving
\* of the requests that build them.
C2_NoDuplicateIds ==
    /\ \A i, j \in DOMAIN built : i # j => built[i] # built[j]
    /\ \A r1, r2 \in InFlight :
          (r1 # r2 /\ calls[r1].id # 0) => calls[r1].id # calls[r2].id

C2_Witness_TwoBuildersInFlight ==
    \E r1, r2 \in InFlight :
        /\ r1 # r2
        /\ calls[r1].id # 0
        /\ calls[r2].id # 0

\* ---- release on every exit path: claims ----
\* a step in which request r returns to, or raises into, its caller
Returning(r) == calls[r].pc \in {"acquire", "release"} /\ calls'[r].pc = "done"

\* C7: every request that borrowed a connection has released it (to the pool or by
\* closing it) when its result or error reaches the caller, on every exit path, and
\* no connection stays borrowed forever.
C7_ReleasedOnEveryExit ==
    /\ [][\A r \in DOMAIN calls :
            Returning(r) =>
                /\ calls[r].sock # 0
                /\ calls[r].sock \notin Borrowed'
                /\ calls[r].sock \in Range(connection_pool') \cup closed']_vars
    /\ [](\A r \in DOMAIN calls : calls[r].pc \in {"new", "done"} => calls[r].sock = 0)
    /\ \A r \in 1..MaxRequests : (calls[r].sock # 0) ~> (calls[r].sock = 0)

C7_Witness_ReleasedAfterTimeout ==
    /\ last.sent
    /\ last.result = Error("timeout")
    /\ Borrowed = {}
    /\ Len(connection_pool) = POOL_SIZE

\* ---- the caches: claims ----
\* a step in which request r is called; what it was called with
Calling(r) == calls[r].pc = "new" /\ calls'[r].pc # "new"
CalledOp(r) == IF calls'[r].pc = "done" THEN last'.op ELSE calls'[r].op
CalledArg(r) == IF calls'[r].pc = "done" THEN last'.arg ELSE calls'[r].arg

\* C9: a set_device_state call made less than 2 s after a call with the same
\* (device, idx, type, val) got its response returns that response without building
\* or sending a message; a call that differs in val issues a new request.
C9_SecondCallServedFromCache ==
    [][\A r \in DOMAIN calls :
        (/\ Calling(r)
         /\ CalledOp(r) = "set_device_state"
         /\ last.op = "set_device_state"
         /\ last.result.kind = "response"
         /\ now - last.at < STATE_TTL) =>
            IF CalledArg(r) = last.arg
            THEN /\ built' = built
                 /\ calls'[r].pc = "done"
                 /\ last'.result = last.result
            ELSE /\ Len(built') = Len(built) + 1
                 /\ calls'[r].pc = "acquire"]_vars

\* C10: a get_remote_keys / get_remote_list call made within 300 s of a call with
\* the same arguments that returned a value returns that value and makes no transport
\* call; a call made once the 300 s have passed makes a fresh transport call.
C10_RemoteCallsServedFromCache ==
    [][\A r \in DOMAIN calls :
        (Calling(r) /\ CalledOp(r) \in {"get_remote_keys", "get_remote_list"}) =>
            LET e == IF CalledOp(r) = "get_remote_list" THEN list_cache
                     ELSE keys_cache[CalledArg(r)[1]]
            IN  /\ (Live(e) /\ e.value.kind \in {"response", "all_keys"}) =>
                      /\ calls'[r].pc = "done"
                      /\ last'.result = e.value
                      /\ built' = built
                /\ (e.coro # 0 /\ ~Live(e)) =>
                      /\ calls'[r].pc = "acquire"
                      /\ Len(built') = Len(built) + 1]_vars

\* the transport call of the request ended without a code-0 response
Failed(result) ==
    \/ result.kind = "error" /\ result.err # "RuntimeError"
    \/ result.kind = "None"
    \/ result.kind = "response" /\ result.code # 0

CachedOps == {"get_remote_keys", "get_remote_list", "get_state_updates", "set_device_state"}

\* C11: when the transport call of a cached operation failed or was rejected, nothing
\* is stored: the next call of that operation with the same arguments is not answered
\* from the cache but makes a new transport call.
C11_FailureIsNotCached ==
    [][\A r \in DOMAIN calls :
        (/\ Calling(r)
         /\ CalledOp(r) \in CachedOps
         /\ last.sent
         /\ last.op = CalledOp(r)
         /\ last.arg = CalledArg(r)
         /\ Failed(last.result)) =>
            /\ calls'[r].pc = "acquire"
            /\ CalledOp(r) # "get_state_updates" => Len(built') = Len(built) + 1]_vars

GetKeysArgs(rid) == <<<<"id", StrVal(rid)>>, <<"cmd", StrVal("getkeys")>>>>
SetStateArgs(k) == <<<<"me", StrVal(k[1])>>, <<"idx", StrVal(k[2])>>,
                     <<"type", IntVal(k[3])>>, <<"val", IntVal(k[4])>>>>

\* C12: a cached value is never served for a different argument set: a
\* get_remote_keys / set_device_state call with no live entry under its own arguments
\* goes to the wire with those arguments, whatever is stored for other arguments, a
\* response stored for other arguments is never its result, and the response a call
\* returns is the answer to the message built for that call.
C12_NoValueForOtherArguments ==
    [][\A r \in DOMAIN calls :
        /\ (Calling(r) /\ CalledOp(r) = "get_remote_keys") =>
              LET rid == CalledArg(r)[1] IN
              /\ ~Live(keys_cache[rid]) =>
                    /\ calls'[r].pc = "acquire"
                    /\ wire'.args = GetKeysArgs(rid)
                    /\ wire'.id = calls'[r].id
              /\ \A k \in RemoteIds \ {rid} :
                    (calls'[r].pc = "done" /\ keys_cache[k].value.kind = "response") =>
                        last'.result # keys_cache[k].value
        /\ (Calling(r) /\ CalledOp(r) = "set_device_state") =>
              LET key == CalledArg(r) IN
              /\ ~Live(state_cache[key]) =>
                    /\ calls'[r].pc = "acquire"
                    /\ wire'.args = SetStateArgs(key)
                    /\ wire'.id = calls'[r].id
              /\ \A k \in StateKeys \ {key} :
                    (calls'[r].pc = "done" /\ state_cache[k].value.kind = "response") =>
                        last'.result # state_cache[k].value
        /\ (Returning(r) /\ last'.result.kind = "response") =>
              last'.result.re = calls[r].id]_vars

\* get_remote_keys("r2") is on its way to the wire while the response of
\* get_remote_keys("r1") is held by a live entry
C12_Witness_OtherRemoteWhileCached ==
    /\ Live(keys_cache["r1"])
    /\ keys_cache["r1"].value.kind = "response"
    /\ \E r \in DOMAIN calls :
        /\ calls[r].pc = "acquire"
        /\ calls[r].op = "get_remote_keys"
        /\ calls[r].arg = <<"r2">>
        /\ wire.args = GetKeysArgs("r2")

\* ---- the operations built on send_command: claims ----
SendKeyArgs(a) == <<<<"id", StrVal(a[1])>>, <<"cmd", StrVal("sendkey")>>,
                    <<"key", StrVal(a[2])>>>>

\* C13: send_remote_key is never cached: every call, a repeat of the same (remote id,
\* key) included, builds a new message with a sequence id no earlier message had, and
\* returns only after that message went through an exchange on the wire.
C13_SendRemoteKeyAlwaysSends ==
    /\ [][\A r \in DOMAIN calls :
            /\ (Calling(r) /\ CalledOp(r) = "send_remote_key") =>
                  /\ calls'[r].pc = "acquire"
                  /\ Len(built') = Len(built) + 1
                  /\ wire'.id \notin Range(built)
                  /\ wire'.id = calls'[r].id
                  /\ wire'.obj = "spotremote"
                  /\ wire'.args = SendKeyArgs(CalledArg(r))
            /\ (calls[r].op = "send_remote_key" /\ calls'[r].pc = "done") =>
                  /\ calls[r].pc = "release"
                  /\ last'.sent]_vars
    /\ [](\A r \in DOMAIN calls :
            (calls[r].op = "send_remote_key" /\ calls[r].pc = "acquire") =>
                ENABLED Exchange(r, "ok"))

\* the key that was sent and answered last is being sent again, at the same second
C13_Witness_RepeatedKeySentAgain ==
    /\ last.op = "send_remote_key"
    /\ last.result.kind = "response"
    /\ last.at = now
    /\ \E r \in DOMAIN calls :
        /\ calls[r].op = "send_remote_key"
        /\ calls[r].arg = last.arg
        /\ calls[r].pc = "release"
        /\ calls[r].id > last.result.re

\* C14: a send_remote_key whose message was sent and whose receive timed out
\* completes as "command sent, result unknown": its caller gets no timeout error.
C14_SendRemoteKeyTimeoutIsNotAnError ==
    (last.op = "send_remote_key" /\ last.sent) => last.result # Error("timeout")

SendCommandOps == {"discover_devices", "discover_devices_by_id", "send_remote_key",
                   "send_command"}

\* the messages built so far are those of the first request alone
OnlyFirstCalled == calls[1].pc = "done" /\ \A r \in DOMAIN calls : r > 1 => calls[r].pc = "new"

\* C15: an operation built on send_command does not surface a timeout to its caller
\* while attempts remain: a caller that got a timeout has seen three messages sent.
C15_TimeoutOnlyAfterThreeAttempts ==
    (/\ OnlyFirstCalled
     /\ last.op \in SendCommandOps
     /\ last.result = Error("timeout")) => Len(built) = 3

\* ---- the retry loops: claims ----
\* the step in which a loop deals with the end of an attempt
AttemptEnding == AttemptOver /\ loop' # loop

\* the delay before the first retry
Base(kind) == Delay(kind, 0)

\* C16: in every retry loop the wait before retry n is base * 2^(n-1), so the waits
\* before the third attempt are base and 2 * base, and no wait follows the final
\* failed attempt.
C16_BackoffDoubles ==
    /\ \A n \in DOMAIN loop.waits : loop.waits[n] = Base(loop.kind) * Pow2(n - 1)
    /\ Len(loop.waits) <= loop.attempt + 1
    /\ loop.pc \in {"returned", "raised"} => Len(loop.waits) = loop.attempt

\* C17: every retry loop makes at most 3 attempts, and when the last of them fails
\* the loop raises an error that carries that last failure: it never returns
\* normally, or with an empty result, after exhaustion.
C17_ExhaustionRaisesLastFailure ==
    /\ [](loop.attempt + 1 <= 3)
    /\ [](loop.kind \in ApiLoops => Len(built) - loop.base <= 3)
    /\ [][(AttemptEnding /\ last.result.kind = "error"
                /\ loop.attempt = MaxAttempts(loop.kind) - 1) =>
             /\ loop'.pc = "raised"
             /\ loop'.result.kind = "error"
             /\ loop'.cause = ExceptionOf(last.result)]_vars
    /\ [](loop.pc = "returned" => last.result.kind # "error")

C17_Witness_RaisedAfterThreeAttempts ==
    /\ loop.pc = "raised"
    /\ loop.attempt = 2
    /\ Len(loop.waits) = 2
    /\ loop.cause = ExceptionOf(last.result)

\* C18: a response that is too short or does not decode is a transient failure: the
\* coordinator refreshes attempt the request again, up to the 3-attempt limit, and do
\* not surface it on its first occurrence.
C18_MalformedResponseIsRetried ==
    [][(/\ AttemptEnding
        /\ loop.kind \in Refreshes
        /\ last.result = Error("decode")
        /\ loop.attempt < REFRESH_ATTEMPTS - 1) =>
            /\ loop'.pc = "sleep"
            /\ loop'.result = NoResult]_vars

\* C19: a hub response whose code is not 0 is returned to the caller of send_command
\* and never triggers a retry: under the sensor wrapper and under a coordinator
\* refresh the loop ends with that attempt, without a wait and without a further
\* message, so one message was sent for the rejected call.
C19_RejectionIsNotRetried ==
    /\ [][\A r \in DOMAIN calls :
            (Returning(r) /\ calls[r].out = "rejected" /\ calls[r].op \in SendCommandOps) =>
                /\ last'.result = Response(1, calls[r].id, <<>>)
                /\ built' = built]_vars
    /\ [][(/\ AttemptEnding
           /\ loop.kind \in ApiLoops
           /\ last.result.kind = "response"
           /\ last.result.code # 0) =>
                /\ loop'.pc = "returned"
                /\ loop'.waits = loop.waits
                /\ built' = built
                /\ loop.kind = "_retry_with_backoff" => loop'.result = last.result]_vars
    /\ [](/\ loop.pc = "returned"
          /\ loop.kind \in ApiLoops
          /\ last.result.kind = "response"
          /\ last.result.code # 0
          => /\ Len(built) = loop.base + loop.attempt + 1
             /\ built[Len(built)] = last.result.re)

\* a rejection of the first message, and of the third after two failed attempts
C19_Witness_RejectedOnce ==
    /\ loop.pc = "returned"
    /\ loop.kind = "_retry_with_backoff"
    /\ loop.result.kind = "response"
    /\ loop.result.code = 1
    /\ Len(built) = 1

\* ---- the setup: claims ----
\* the field is missing, empty or not a string
BadField(v) == v = Absent \/ v = StrVal("") \/ v.t # "str"

\* C20: a configuration whose host, model or token is missing, empty or not a string
\* fails fast: async_setup_entry returns False at the first field that fails
\* validation, with no retry and no wait, without an API instance or a coordinator
\* having been created and with nothing stored in hass.data.
C20_BadConfigurationFailsFast ==
    (hass.pc # "new" /\ \E i \in DOMAIN hass.entry : BadField(hass.entry[i])) =>
        /\ hass.pc = "done"
        /\ hass.result = "False"
        /\ hass.checked = CHOOSE i \in DOMAIN hass.entry :
                              /\ BadField(hass.entry[i])
                              /\ \A j \in 1..(i - 1) : ~BadField(hass.entry[j])
        /\ hass.apis = 0
        /\ hass.coordinators = 0
        /\ hass.data = {}
        /\ hass.attempt = 0
        /\ hass.waits = <<>>
        /\ loop = NoLoop
        /\ now = 0

\* a host that is a string, then a model that is a number
C20_Witness_NonStringModel ==
    /\ hass.pc = "done"
    /\ hass.entry[1] = StrVal("hub")
    /\ hass.entry[2] = IntVal(7)
    /\ hass.result = "False"
    /\ hass.checked = 2

\* ---- the coordinator's refreshes: claims ----
\* the request of the refresh attempt in progress has finished its exchange
RefreshExchanged(r) ==
    /\ loop.kind \in Refreshes
    /\ loop.pc = "attempt"
    /\ r = AttemptRequest
    /\ calls[r].pc = "release"

\* the step in which a refresh deals with the end of an attempt
RefreshAttemptEnding == AttemptEnding /\ loop.kind \in Refreshes

\* C21: _async_update_data and _async_get_device_data each make at most 3 attempts,
\* no attempt lasts longer than the per-attempt timeout `timout`, a success on any
\* attempt returns that attempt's data, and a third consecutive timeout ends in
\* UpdateFailed.
C21_RefreshAttemptsAreBounded ==
    /\ [](loop.kind \in Refreshes =>
            /\ loop.attempt + 1 <= REFRESH_ATTEMPTS
            /\ Len(built) - loop.base <= REFRESH_ATTEMPTS)
    /\ [](\A r \in DOMAIN calls : RefreshExchanged(r) => Blocked(calls[r]) <= timout)
    /\ [][(RefreshAttemptEnding /\ last.result.kind \in {"response", "devices"}) =>
            /\ loop'.pc = "returned"
            /\ loop'.result = Data(last.result.msg)]_vars
    /\ [][(RefreshAttemptEnding /\ last.result = Error("timeout")
                /\ loop.attempt = REFRESH_ATTEMPTS - 1) =>
            /\ loop'.pc = "raised"
            /\ loop'.result = Error("UpdateFailed")]_vars

\* C22: a coordinator refresh ends in one of two ways: it returns a mapping with a
\* "msg" list, or it raises UpdateFailed.  Whatever the API call failed with (timeout,
\* socket error, body that does not decode, response of an unexpected shape), no
\* other error leaves the refresh and the refresh never ends without a result.
C22_RefreshReturnsDataOrUpdateFailed ==
    /\ []((loop.kind \in Refreshes /\ loop.pc = "returned") =>
            /\ loop.result.kind = "data"
            /\ loop.result = Data(loop.result.msg))
    /\ []((loop.kind \in Refreshes /\ loop.pc = "raised") =>
            loop.result = Error("UpdateFailed"))
    /\ [][(RefreshAttemptEnding /\ last.result.kind = "error") =>
            \/ loop'.pc = "sleep" /\ loop'.result = NoResult
            \/ loop'.pc = "raised" /\ loop'.result = Error("UpdateFailed")]_vars

\* the hub's device list has an entry without "me": KeyError inside api.get_devices
C22_Witness_UnexpectedShape ==
    /\ loop.kind = "_async_update_data"
    /\ loop.pc = "raised"
    /\ loop.cause = "KeyError"
    /\ last.out = "ok"
    /\ loop.result = Error("UpdateFailed")

\* C23: after a refresh has ended in UpdateFailed the coordinator is unavailable: its
\* `available` property is False, and async_set_device_state returns without starting
\* anything that sends a message.
C23_UnavailableAfterFailedRefresh ==
    /\ []((loop.kind \in Refreshes /\ loop.pc = "raised") => ~coordinator.available)
    /\ [][(loop.kind \in Refreshes /\ loop.pc = "raised") =>
            ~(loop'.pc = "attempt" /\ loop'.caller = "async_set_device_state")]_vars

\* C24: after a full refresh that succeeded, every device the refresh returned is in
\* the cache the collaborators read: get_device(d) gives its data and get_devices()
\* contains it.
C24_RefreshFeedsDeviceCache ==
    (loop.kind = "_async_update_data" /\ loop.pc = "returned") =>
        \A d \in Range(loop.result.msg) :
            /\ coordinator_get_device(d) = <<d>>
            /\ d \in coordinator_get_devices

\* C33: while the coordinator is available, a call of async_set_device_state(device,
\* state) that completes without error has run the API's set_device_state exchange
\* for (device, idx, type, val), one "ep" control message sent to the hub and its
\* response received, before the follow-up refresh is started.
C33_SetStateExchangeBeforeRefresh ==
    [][(loop'.caller = "async_set_device_state" /\ loop'.entered > loop.entered) =>
            /\ Len(built') > Len(built)
            /\ wire'.obj = "ep"
            /\ wire'.type = CMD_SET
            /\ last'.op = "set_device_state"
            /\ last'.sent
            /\ last'.result.kind = "response"]_vars

\* ---- the state-update listener: claims ----
\* a step taken by a get_state_updates call
ListenerStep(r) ==
    /\ calls'[r] # calls[r]
    /\ "get_state_updates" \in {calls[r].op, calls'[r].op, last'.op}

\* get_state_updates returns to its caller after recvfrom gave it a datagram
Delivering(r) ==
    /\ Returning(r)
    /\ calls[r].op = "get_state_updates"
    /\ calls[r].pc = "release"
    /\ calls[r].out \notin {"timeout", "oserror"}

\* C25: the listener has a socket of its own: no step of get_state_updates takes a
\* connection from the request pool or puts one into it, and the socket it receives
\* on is never one that the pool can hand to a request.
C25_ListenerSocketIsSeparate ==
    /\ [][\A r \in DOMAIN calls :
            ListenerStep(r) => UNCHANGED <<connection_pool, created, closed>>]_vars
    /\ [](\A r \in DOMAIN calls :
            (calls[r].op = "get_state_updates" /\ calls[r].sock # 0) =>
                calls[r].sock \notin 1..INIT_SOCKETS)
    /\ [][\A r \in DOMAIN calls :
            (Returning(r) /\ calls[r].op = "get_state_updates") =>
                calls[r].sock \notin Range(connection_pool')]_vars

\* C26: a malformed datagram (not UTF-8, not JSON, or no longer than the header) is
\* dropped without an error to the caller, and the listener goes on: the next
\* get_state_updates call, however soon it follows, receives again, and an update
\* datagram it receives is delivered as an update event.
C26_MalformedDatagramIsDropped ==
    /\ [][\A r \in DOMAIN calls :
            (Delivering(r) /\ Malformed(calls[r].body)) => last'.result = None]_vars
    /\ [][\A r \in DOMAIN calls :
            (/\ Calling(r)
             /\ CalledOp(r) = "get_state_updates"
             /\ last.op = "get_state_updates"
             /\ last.out = "malformed") => calls'[r].pc = "acquire"]_vars
    /\ [][\A r \in DOMAIN calls :
            (Delivering(r) /\ calls[r].body = Update) => last'.result.kind = "event"]_vars

\* the update event the datagram d describes: me, idx and type are msg.me, msg.idx
\* and msg.type, val is msg.data.v when msg.data has a "v" and msg.val otherwise
EventOf(d) == Event(d.me, d.idx, IF d.data = "object_v" THEN d.v ELSE d.val, d.type)

\* C27, as stated: every datagram longer than 10 bytes whose JSON body has a "msg"
\* object yields the update event of that msg; a datagram with no "msg", or with a
\* "msg" that is no object, yields no event.
C27_EveryMsgObjectYieldsEvent ==
    [][\A r \in DOMAIN calls :
        (Delivering(r) /\ calls[r].body.long /\ calls[r].body.json # "garbage") =>
            last'.result = IF calls[r].body.json = "msg" THEN EventOf(calls[r].body)
                           ELSE None]_vars

\* C27, amended: a datagram longer than 10 bytes whose JSON body has a "msg" object
\* yields the update event of that msg when msg.data is absent or is an object; when
\* msg.data is present and is no object (null, a number, a list) the datagram yields
\* no event, as does a datagram with no "msg" or with a "msg" that is no object.
C27_UpdateEventFromDatagram ==
    [][\A r \in DOMAIN calls :
        (Delivering(r) /\ calls[r].body.long /\ calls[r].body.json # "garbage") =>
            last'.result = IF calls[r].body.json = "msg" /\ calls[r].body.data # "null"
                           THEN EventOf(calls[r].body)
                           ELSE None]_vars

\* an update was delivered with the value of msg.data.v (msg.val is absent or 0)
C27_Witness_DataVDelivered ==
    /\ last.op = "get_state_updates"
    /\ last.out = "ok"
    /\ last.result = Event(StrVal("dev1"), StrVal("L1"), IntVal(1), IntVal(TYPE_ON))

\* ---- get_remote_list: claims ----
\* get_remote_list ends, after the hub answered its getlist message with code 0
ListReturning(r) ==
    /\ Returning(r)
    /\ calls[r].op = "get_remote_list"
    /\ calls[r].pc = "release"
    /\ calls[r].cur # "" \/ calls[r].out = "ok"

\* the pairs collected when the exchange of request c is over: those of the key
\* queries answered with code 0, in the order of the hub's list
PairsOf(c) ==
    IF c.cur # "" /\ c.out = "ok"
    THEN Append(c.acc, [remote |-> c.cur, keys |-> c.id])
    ELSE c.acc

\* the listed remotes whose keys were not asked for yet
Unasked(c) == IF c.cur = "" THEN c.body ELSE c.todo

\* C28: get_remote_list returns, in the order of the hub's list, one {remote, keys}
\* pair for each listed remote whose key query succeeded, keys being that query's
\* response; for an empty list it returns an empty sequence; and it has sent a getkeys
\* message for every listed remote when it ends.
C28_RemoteListPairs ==
    [][\A r \in DOMAIN calls :
        ListReturning(r) =>
            /\ last'.result = AllKeys(PairsOf(calls[r]))
            /\ Unasked(calls[r]) = <<>>]_vars

\* ---- the timeout of a request: claims ----
\* request r has sent its message and recvfrom has returned or raised
Exchanging(r) == calls[r].pc = "release" /\ calls[r].op # "get_state_updates"

\* C29: during the send and the receive of a request the socket's timeout is the
\* time_out its caller supplied, so a request that times out fails after that time
\* and not after the client-wide default; its connection still goes back to the pool.
C29_CallerTimeoutInForce ==
    /\ [](\A r \in DOMAIN calls :
            Exchanging(r) => gettimeout(calls[r].sock) = calls[r].time_out)
    /\ [](\A r \in DOMAIN calls :
            (Exchanging(r) /\ calls[r].out = "timeout") =>
                Blocked(calls[r]) = calls[r].time_out)
    /\ [][\A r \in DOMAIN calls :
            (Returning(r) /\ calls[r].out = "timeout") =>
                calls[r].sock \in Range(connection_pool') \cup closed']_vars

\* ---- the pool lock: claims ----
\* request r is in its send/receive exchange
InExchange(r) == calls[r].pc \in {"sendto", "recvfrom"}

\* the lock is held only inside the two `async with` blocks, by one request, and
\* never during an exchange; no request has to wait for it
LockOnlyAroundQueue ==
    /\ \A r \in DOMAIN calls : InExchange(r) => pool_lock = 0
    /\ pool_lock # 0 =>
        /\ calls[pool_lock].pc \in {"get_nowait", "exit_get", "put_nowait", "exit_put"}
        /\ running = pool_lock
    /\ \A r \in DOMAIN calls : calls[r].pc \in {"enter_get", "enter_put"} => running = r

RECURSIVE Unsigned(_)
Unsigned(bytes) ==
    IF bytes = <<>> THEN 0
    ELSE Unsigned(SubSeq(bytes, 1, Len(bytes) - 1)) * 256 + bytes[Len(bytes)]

\* C31: every message create_message built is a 10-byte header followed by the body:
\* the tag "JL", a reserved field of 0, the command type the caller passed (1, 2 or 3)
\* and the number of bytes of the JSON body that follows, so the datagram is 10 bytes
\* longer than its body-length field says.
C31_HeaderFramesBody ==
    wire # NoMessage =>
        /\ Len(wire.data.header) = 10
        /\ SubSeq(wire.data.header, 1, 2) = <<74, 76>>
        /\ Unsigned(SubSeq(wire.data.header, 3, 4)) = 0
        /\ Unsigned(SubSeq(wire.data.header, 5, 6)) = wire.type
        /\ wire.type \in {CMD_GET, CMD_REPORT, CMD_SET}
        /\ Unsigned(SubSeq(wire.data.header, 7, 10)) = Chars(wire.data.body_json)
        /\ Size(wire.data) = 10 + Unsigned(SubSeq(wire.data.header, 7, 10))
        /\ wire.data.body_json
             = json_dumps(wire.id, wire.obj, wire.args, wire.ts, wire.sign)

\* a control message with a four-item argument mapping went out behind its header
C31_Witness_SetMessageFramed ==
    /\ wire.type = CMD_SET
    /\ Len(wire.args) = 4
    /\ Size(wire.data) > 100

\* ---- the response datagram: claims ----
\* the datagram has fewer than 10 bytes, or what follows its first 10 bytes is not a
\* JSON text in UTF-8
Unparsable(data) == data.size < 10 \/ data.size = 10 \/ data.tail # "json"

\* C32: parsing skips exactly the first 10 bytes and decodes the rest as JSON; a
\* datagram shorter than 10 bytes, or whose remainder is not valid UTF-8 JSON, never
\* yields a response value to the caller of send_command or set_device_state: the
\* call ends with an error.  A datagram whose bytes from the 11th on are a JSON text
\* yields the response.
C32_UnparsableReplyIsAnError ==
    [][\A r \in DOMAIN calls :
        (Returning(r) /\ calls[r].pc = "release" /\ calls[r].body \in Replies) =>
            /\ Unparsable(calls[r].body) => last'.result = Error("decode")
            /\ ~Unparsable(calls[r].body) =>
                 /\ last'.result.kind = "response"
                 /\ last'.result.msg = calls[r].body]_vars

\* a set_device_state call has failed on the datagram it received, and a
\* discover_devices call has received a 9-byte datagram
C32_Witness_ShortDatagramFails ==
    /\ last.op = "set_device_state"
    /\ last.sent
    /\ last.out = "malformed"
    /\ last.result = Error("decode")
    /\ \E r \in DOMAIN calls :
        /\ calls[r].pc = "release"
        /\ calls[r].op = "discover_devices"
        /\ calls[r].body \in Replies
        /\ calls[r].body.size = 9
        /\ calls[r].out = "malformed"

\* ---- a failed setup: claims ----
\* C38: a failed setup leaves no stored state behind: whenever async_setup_entry
\* returns False (a configuration error, an API initialisation error, or platform setup
\* failing on all 3 attempts), hass.data[DOMAIN] holds no api_manager/coordinator
\* entry for that config entry.
C38_FailedSetupStoresNothing ==
    (hass.pc = "done" /\ hass.result = "False") => "entry_id" \notin hass.data

\* C39: LifeSmartAPIManager.cleanup releases the API's resources: after cleanup
\* completes, the manager holds no API instance and no socket of the discarded
\* instance's connection pool remains open.
C39_CleanupClosesThePool ==
    hass.unloaded = "True" =>
        /\ ~hass.api
        /\ \A sock \in 1..created : sock \in closed

\* ---- the remote entity: claims ----
\* C40: async_send_command never surfaces a failure to its caller: for every list of
\* command strings (bare keys, "remote_id::key" strings, unknown keys, strings with
\* several "::") and every outcome of send_remote_key it completes without raising,
\* sends a key only when the remote id and the key are known to the entity, and goes
\* on to the remaining commands after a failed one.
C40_SendCommandNeverRaises ==
    /\ remote.pc = "done" => (remote.result = "None" /\ remote.todo = <<>>)
    /\ \A i \in DOMAIN remote.sent :
        /\ remote.sent[i][1] \in DOMAIN remote_details
        /\ remote.sent[i][2] \in remote_details[remote.sent[i][1]]

\* ---- the switch entity: claims ----
\* C36: a switch command that fails leaves the reported on/off state equal to its
\* value before the call: for every prior state, a failed async_turn_on or
\* async_turn_off ends with is_on unchanged, marks the entity unavailable and
\* re-raises the error.
C36_FailedCommandKeepsState ==
    [][(switch'.action # switch.action /\ switch'.action.outcome = "raised") =>
            /\ switch'.state = switch'.action.before
            /\ ~switch'.available]_vars

\* an action of the switch is called in this step and returns early
IgnoredStep == switch'.action # switch.action /\ switch'.action.outcome = "ignored"

\* an action of the switch is called in this step and goes on to its command
AcceptedStep == switch'.action # switch.action /\ switch'.action.outcome = "accepted"

InRefresh == {t \in DOMAIN refreshes : refreshes[t].pc \in {"attempt", "sleep"}}

\* C35: at most one per-device refresh is executing per coordinator at any time: the
\* lock is held across all attempts and retry waits of one refresh, it is released
\* on every exit (data returned or UpdateFailed raised), and a refresh waiting for
\* the lock eventually proceeds.
C35_OneRefreshAtATime ==
    /\ [](Cardinality(InRefresh) <= 1)
    /\ [](\A t \in DOMAIN refreshes :
            /\ t \in InRefresh => coordinator.lock = t
            /\ refreshes[t].pc \in {"returned", "raised"} => coordinator.lock # t
            /\ refreshes[t].pc = "waiting" => t \in Range(coordinator.waiters))
    /\ \A t \in 1..MaxRefreshes :
            (refreshes[t].pc = "waiting") ~> (refreshes[t].pc \in {"returned", "raised"})

\* a refresh waits for the lock while the one that holds it sleeps between its second
\* and its third attempt
C35_Witness_WaitsDuringRetrySleep ==
    /\ \E t, u \in DOMAIN refreshes :
        /\ refreshes[t].pc = "sleep"
        /\ refreshes[t].attempt = 1
        /\ refreshes[u].pc = "waiting"
        /\ coordinator.lock = t

\* ---- late replies: claims ----
\* C34: the response returned to a caller of send_command or set_device_state is a
\* datagram the hub sent in reply to the message of that same call: a reply that
\* arrives late for an earlier, timed-out request on a pooled socket is never
\* returned as the result of a later request that borrows the same socket.
C34_ResponseAnswersItsRequest ==
    (last.op = "discover_devices_by_id" /\ last.result.kind = "response") =>
        last.result.re = wire.id

\* ---- the signature: claims ----
\* C3: for a fixed object, timestamp, model and token, two argument mappings with the
\* same (key, value) pairs get the same signature, whatever their insertion orders.
C3_SignatureIgnoresInsertionOrder ==
    LET a == signed[1]
        b == signed[2]
    IN  (/\ a.sign # <<>>
         /\ b.sign # <<>>
         /\ a.obj = b.obj
         /\ a.ts = b.ts
         /\ Range(a.args) = Range(b.args)) => a.sign = b.sign

C3_Witness_SamePairsOtherOrder ==
    /\ signed[1].sign # <<>>
    /\ signed[1].ts = signed[2].ts
    /\ Len(signed[1].args) = MaxArgs
    /\ Range(signed[1].args) = Range(signed[2].args)
    /\ signed[1].args # signed[2].args

====
